---------------------------- MODULE Spec2Model ----------------------------
(***************************************************************************)
(* E-Rate data analyzer: the two command-line workflows                    *)
(*   usac_school_query.py  (organization discovery / organization history) *)
(*   usac_year_query.py    (state/year vendor summary)                     *)
(* as one state machine per program run, with the data source (the USAC    *)
(* open-data endpoint) as the environment.                                 *)
(*                                                                         *)
(* Strings the code inspects character by character are sequences of       *)
(* one-character strings; Python floats are modelled as integers rounded   *)
(* to MantissaBits significant bits (round-half-to-even), the way binary64 *)
(* rounds to 53 bits.                                                      *)
(***************************************************************************)
EXTENDS Integers, Sequences, FiniteSets, TLC

\* ------------------------------------------------------------------ bounds

\* Requests the data source may fail (transport or parse error) in one run.
MaxFailures == 1

\* Rows the data source holds for a state/year run.
MaxRecords == 3

\* Significant bits of the model's floats (binary64 keeps 53).
MantissaBits == 3

\* Longest model name and longest application number a label is built from.
MaxModelLen == 48
MaxAppNumberLen == 28

\* ----------------------------------------------------------------- strings

LowerLetters ==
  <<"a","b","c","d","e","f","g","h","i","j","k","l","m",
    "n","o","p","q","r","s","t","u","v","w","x","y","z">>

UpperLetters ==
  <<"A","B","C","D","E","F","G","H","I","J","K","L","M",
    "N","O","P","Q","R","S","T","U","V","W","X","Y","Z">>

Digits == <<"0","1","2","3","4","5","6","7","8","9">>

\* The characters of the model in ASCII order (for comparisons of strings).
Ascii == <<" ", "+", "-">> \o Digits \o UpperLetters \o LowerLetters

Chars == { Ascii[i] : i \in 1..Len(Ascii) }
LowerSet == { LowerLetters[i] : i \in 1..26 }
UpperSet == { UpperLetters[i] : i \in 1..26 }
LetterSet == LowerSet \cup UpperSet
DigitSet == { Digits[i] : i \in 1..10 }

\* ord(c), up to the characters the model leaves out
Ord == [c \in Chars |-> CHOOSE i \in 1..Len(Ascii) : Ascii[i] = c]

\* int(c) of a digit
DigitValue == [c \in DigitSet |-> (CHOOSE i \in 1..10 : Digits[i] = c) - 1]

\* c.lower(), c.upper()
lower_char ==
  [c \in Chars |->
     IF c \in UpperSet THEN LowerLetters[CHOOSE i \in 1..26 : UpperLetters[i] = c] ELSE c]
upper_char ==
  [c \in Chars |->
     IF c \in LowerSet THEN UpperLetters[CHOOSE i \in 1..26 : LowerLetters[i] = c] ELSE c]

IsSpace(c) == c = " "

\* str.lower(), str.upper()
lower(s) == [i \in 1..Len(s) |-> lower_char[s[i]]]
upper(s) == [i \in 1..Len(s) |-> upper_char[s[i]]]

\* str.title(): a letter that follows a non-letter is upper-cased, any other
\* letter lower-cased.
title(s) ==
  [i \in 1..Len(s) |->
     IF i = 1 \/ s[i-1] \notin LetterSet THEN upper_char[s[i]] ELSE lower_char[s[i]]]

RECURSIVE lstrip(_)
lstrip(s) == IF s # <<>> /\ IsSpace(s[1]) THEN lstrip(Tail(s)) ELSE s

RECURSIVE rstrip(_)
rstrip(s) ==
  IF s # <<>> /\ IsSpace(s[Len(s)]) THEN rstrip(SubSeq(s, 1, Len(s) - 1)) ELSE s

\* str.strip()
strip(s) == rstrip(lstrip(s))

\* needle in hay / SQL LIKE '%needle%'
contains(hay, needle) ==
  \E i \in 0..(Len(hay) - Len(needle)) : SubSeq(hay, i + 1, i + Len(needle)) = needle

\* s < t in the lexicographic order of strings
RECURSIVE str_less(_, _)
str_less(s, t) ==
  IF t = <<>> THEN FALSE
  ELSE IF s = <<>> THEN TRUE
  ELSE IF s[1] # t[1] THEN Ord[s[1]] < Ord[t[1]]
  ELSE str_less(Tail(s), Tail(t))

\* ------------------------------------------------------------------ floats

RECURSIVE Pow2(_)
Pow2(n) == IF n = 0 THEN 1 ELSE 2 * Pow2(n - 1)

\* The least e with n < 2^(MantissaBits + e).
RECURSIVE ExcessBits(_)
ExcessBits(n) == IF n < Pow2(MantissaBits) THEN 0 ELSE 1 + ExcessBits(n \div 2)

RoundMagnitude(n) ==
  LET e == ExcessBits(n)
      unit == Pow2(e)
      q == n \div unit
      r == n % unit
  IN  IF e = 0 THEN n
      ELSE IF 2 * r > unit \/ (2 * r = unit /\ q % 2 = 1) THEN (q + 1) * unit
      ELSE q * unit

\* The float nearest to the number x (ties to the even mantissa).
FRound(x) == IF x < 0 THEN 0 - RoundMagnitude(0 - x) ELSE RoundMagnitude(x)

\* float + float
fadd(a, b) == FRound(a + b)

RECURSIVE DigitsValue(_, _)
DigitsValue(s, acc) ==
  IF s = <<>> THEN acc
  ELSE DigitsValue(Tail(s), 10 * acc + DigitValue[s[1]])

AllDigits(s) == s # <<>> /\ \A i \in 1..Len(s) : s[i] \in DigitSet

\* The integer literal a string holds after strip(): an optional sign, then
\* digits. [ok, val]
ParseInteger(s) ==
  LET t == strip(s)
      signed == t # <<>> /\ t[1] \in {"+", "-"}
      body == IF signed THEN Tail(t) ELSE t
      mag == DigitsValue(body, 0)
  IN  IF AllDigits(body)
      THEN [ok |-> TRUE, val |-> IF signed /\ t[1] = "-" THEN 0 - mag ELSE mag]
      ELSE [ok |-> FALSE, val |-> 0]

\* ------------------------------------------------------------- JSON values

\* A field of a raw record as json.loads delivers it; "absent": no such key.
JAbsent == [t |-> "absent", s |-> <<>>, n |-> 0]
JNull == [t |-> "null", s |-> <<>>, n |-> 0]
JStr(str) == [t |-> "str", s |-> str, n |-> 0]
JNum(k) == [t |-> "num", s |-> <<>>, n |-> k]
JList(len) == [t |-> "list", s |-> <<>>, n |-> len]
JBool(b) == [t |-> "bool", s |-> <<>>, n |-> IF b THEN 1 ELSE 0]

\* bool(v)
truthy(v) ==
  CASE v.t = "str" -> v.s # <<>>
    [] v.t = "num" -> v.n # 0
    [] v.t = "list" -> v.n > 0
    [] v.t = "bool" -> v.n = 1
    [] OTHER -> FALSE

\* float(v): [exc, val], exc the exception raised or "none".
float(v) ==
  CASE v.t = "str" ->
         LET p == ParseInteger(v.s)
         IN  IF p.ok THEN [exc |-> "none", val |-> FRound(p.val)]
             ELSE [exc |-> "ValueError", val |-> 0]
    [] v.t \in {"num", "bool"} -> [exc |-> "none", val |-> FRound(v.n)]
    [] OTHER -> [exc |-> "TypeError", val |-> 0]

\* None, as filter_record returns it for a rejected record.
None == [none |-> TRUE]

\* str(n) for n >= 0
RECURSIVE str_of_int(_)
str_of_int(n) ==
  IF n < 10 THEN <<Digits[n + 1]>>
  ELSE str_of_int(n \div 10) \o <<Digits[(n % 10) + 1]>>

\* seq[:n]
Take(seq, n) == IF n <= 0 THEN <<>> ELSE SubSeq(seq, 1, IF n < Len(seq) THEN n ELSE Len(seq))

\* -------------------------------------------------------- vendor taxonomy

school_vendor_mappings ==
  << [name |-> <<"c","i","s","c","o">>,
      variants |-> << <<"c","i","s","c","o">>,
                    <<"c","i","s","c","o"," ","s","y","s","t","e","m","s">>,
                    <<"m","e","r","a","k","i">>,
                    <<"c","i","s","c","o"," ","m","e","r","a","k","i">> >>],
     [name |-> <<"h","p">>,
      variants |-> << <<"h","p">>,
                    <<"h","e","w","l","e","t","t","-","p","a","c","k","a","r","d">>,
                    <<"h","p","e">>,
                    <<"h","e","w","l","e","t","t"," ","p","a","c","k","a","r","d">>,
                    <<"a","r","u","b","a">>,
                    <<"a","r","u","b","a"," ","n","e","t","w","o","r","k","s">>,
                    <<"h","e","w","l","e","t","t"," ","p","a","c","k","a","r","d"," ","e","n","t","e","r","p","r","i","s","e">> >>],
     [name |-> <<"j","u","n","i","p","e","r">>,
      variants |-> << <<"j","u","n","i","p","e","r">>,
                    <<"j","u","n","i","p","e","r"," ","n","e","t","w","o","r","k","s">> >>],
     [name |-> <<"u","b","i","q","u","i","t","i">>,
      variants |-> << <<"u","b","i","q","u","i","t","i">>,
                    <<"u","b","n","t">>,
                    <<"u","b","i","q","u","i","t","i"," ","n","e","t","w","o","r","k","s">> >>],
     [name |-> <<"a","r","i","s","t","a">>,
      variants |-> << <<"a","r","i","s","t","a">>,
                    <<"a","r","i","s","t","a"," ","n","e","t","w","o","r","k","s">> >>],
     [name |-> <<"f","o","r","t","i","n","e","t">>,
      variants |-> << <<"f","o","r","t","i","n","e","t">>,
                    <<"f","o","r","t","i","g","a","t","e">> >>],
     [name |-> <<"r","u","c","k","u","s">>,
      variants |-> << <<"r","u","c","k","u","s">>,
                    <<"r","u","c","k","u","s"," ","w","i","r","e","l","e","s","s">>,
                    <<"c","o","m","m","s","c","o","p","e"," ","r","u","c","k","u","s">> >>],
     [name |-> <<"n","e","t","g","e","a","r">>,
      variants |-> << <<"n","e","t","g","e","a","r">> >>],
     [name |-> <<"d","e","l","l">>,
      variants |-> << <<"d","e","l","l">>,
                    <<"d","e","l","l"," ","e","m","c">>,
                    <<"d","e","l","l"," ","t","e","c","h","n","o","l","o","g","i","e","s">> >>],
     [name |-> <<"e","x","t","r","e","m","e">>,
      variants |-> << <<"e","x","t","r","e","m","e">>,
                    <<"e","x","t","r","e","m","e"," ","n","e","t","w","o","r","k","s">> >>],
     [name |-> <<"a","l","l","i","e","d">>,
      variants |-> << <<"a","l","l","i","e","d">>,
                    <<"a","l","l","i","e","d"," ","t","e","l","e","s","i","s">> >>],
     [name |-> <<"a","d","t","r","a","n">>,
      variants |-> << <<"a","d","t","r","a","n">> >>],
     [name |-> <<"s","o","n","i","c","w","a","l","l">>,
      variants |-> << <<"s","o","n","i","c","w","a","l","l">> >>],
     [name |-> <<"w","a","t","c","h","g","u","a","r","d">>,
      variants |-> << <<"w","a","t","c","h","g","u","a","r","d">>,
                    <<"w","a","t","c","h"," ","g","u","a","r","d"," ","t","e","c","h","n","o","l","o","g","i","e","s">> >>],
     [name |-> <<"p","a","l","o"," ","a","l","t","o">>,
      variants |-> << <<"p","a","l","o"," ","a","l","t","o">>,
                    <<"p","a","l","o"," ","a","l","t","o"," ","n","e","t","w","o","r","k","s">> >>] >>

year_vendor_mappings ==
  << [name |-> <<"c","i","s","c","o">>,
      variants |-> << <<"c","i","s","c","o">>,
                    <<"c","i","s","c","o"," ","s","y","s","t","e","m","s">>,
                    <<"m","e","r","a","k","i">>,
                    <<"c","i","s","c","o"," ","m","e","r","a","k","i">> >>],
     [name |-> <<"h","p">>,
      variants |-> << <<"h","p">>,
                    <<"h","e","w","l","e","t","t","-","p","a","c","k","a","r","d">>,
                    <<"h","p","e">>,
                    <<"h","e","w","l","e","t","t"," ","p","a","c","k","a","r","d">>,
                    <<"a","r","u","b","a">>,
                    <<"a","r","u","b","a"," ","n","e","t","w","o","r","k","s">>,
                    <<"h","e","w","l","e","t","t"," ","p","a","c","k","a","r","d"," ","e","n","t","e","r","p","r","i","s","e">>,
                    <<"j","u","n","i","p","e","r">>,
                    <<"j","u","n","i","p","e","r"," ","n","e","t","w","o","r","k","s">> >>],
     [name |-> <<"u","b","i","q","u","i","t","i">>,
      variants |-> << <<"u","b","i","q","u","i","t","i">>,
                    <<"u","b","n","t">>,
                    <<"u","b","i","q","u","i","t","i"," ","n","e","t","w","o","r","k","s">> >>],
     [name |-> <<"a","r","i","s","t","a">>,
      variants |-> << <<"a","r","i","s","t","a">>,
                    <<"a","r","i","s","t","a"," ","n","e","t","w","o","r","k","s">> >>],
     [name |-> <<"f","o","r","t","i","n","e","t">>,
      variants |-> << <<"f","o","r","t","i","n","e","t">>,
                    <<"f","o","r","t","i","g","a","t","e">> >>],
     [name |-> <<"r","u","c","k","u","s">>,
      variants |-> << <<"r","u","c","k","u","s">>,
                    <<"r","u","c","k","u","s"," ","w","i","r","e","l","e","s","s">>,
                    <<"c","o","m","m","s","c","o","p","e"," ","r","u","c","k","u","s">> >>],
     [name |-> <<"n","e","t","g","e","a","r">>,
      variants |-> << <<"n","e","t","g","e","a","r">> >>],
     [name |-> <<"d","e","l","l">>,
      variants |-> << <<"d","e","l","l">>,
                    <<"d","e","l","l"," ","e","m","c">>,
                    <<"d","e","l","l"," ","t","e","c","h","n","o","l","o","g","i","e","s">> >>],
     [name |-> <<"e","x","t","r","e","m","e">>,
      variants |-> << <<"e","x","t","r","e","m","e">>,
                    <<"e","x","t","r","e","m","e"," ","n","e","t","w","o","r","k","s">> >>],
     [name |-> <<"a","l","l","i","e","d">>,
      variants |-> << <<"a","l","l","i","e","d">>,
                    <<"a","l","l","i","e","d"," ","t","e","l","e","s","i","s">> >>],
     [name |-> <<"a","d","t","r","a","n">>,
      variants |-> << <<"a","d","t","r","a","n">> >>],
     [name |-> <<"s","o","n","i","c","w","a","l","l">>,
      variants |-> << <<"s","o","n","i","c","w","a","l","l">> >>],
     [name |-> <<"w","a","t","c","h","g","u","a","r","d">>,
      variants |-> << <<"w","a","t","c","h","g","u","a","r","d">>,
                    <<"w","a","t","c","h"," ","g","u","a","r","d"," ","t","e","c","h","n","o","l","o","g","i","e","s">> >>],
     [name |-> <<"p","a","l","o"," ","a","l","t","o">>,
      variants |-> << <<"p","a","l","o"," ","a","l","t","o">>,
                    <<"p","a","l","o"," ","a","l","t","o"," ","n","e","t","w","o","r","k","s">> >>] >>

\* self.target_vendors: the flat set of every alias, lower-cased
target_vendors(mappings) ==
  UNION { { lower(mappings[i].variants[j]) : j \in 1..Len(mappings[i].variants) } :
            i \in 1..Len(mappings) }

\* is_target_vendor, were an alias looked for inside the name
is_target_vendor_substring(mappings, manufacturer_name) ==
  IF manufacturer_name = <<>> THEN FALSE
  ELSE \E alias \in target_vendors(mappings) :
         contains(strip(lower(manufacturer_name)), alias)

\* is_target_vendor: exact alias match after lower() and strip()
is_target_vendor(mappings, manufacturer_name) ==
  IF manufacturer_name = <<>> THEN FALSE
  ELSE strip(lower(manufacturer_name)) \in target_vendors(mappings)

\* Whether name_lower is one of the variants of entry i.
InVariants(mappings, i, name_lower) ==
  \E j \in 1..Len(mappings[i].variants) : lower(mappings[i].variants[j]) = name_lower

\* get_standardized_vendor, were the name looked up as it is written
get_standardized_vendor_verbatim(mappings, manufacturer_name) ==
  IF manufacturer_name = <<>> THEN <<>>
  ELSE LET hits == { i \in 1..Len(mappings) : InVariants(mappings, i, manufacturer_name) }
       IN  IF hits = {} THEN manufacturer_name
           ELSE title(mappings[CHOOSE i \in hits : \A k \in hits : i <= k].name)

\* get_standardized_vendor: the first entry, in the table's order, one of
\* whose variants the name is; the name itself when there is none.
get_standardized_vendor(mappings, manufacturer_name) ==
  IF manufacturer_name = <<>> THEN <<>>
  ELSE LET name_lower == strip(lower(manufacturer_name))
           hits == { i \in 1..Len(mappings) : InVariants(mappings, i, name_lower) }
       IN  IF hits = {} THEN manufacturer_name
           ELSE title(mappings[CHOOSE i \in hits : \A k \in hits : i <= k].name)

\* ------------------------------------------------------- record normalizer

\* The exceptions extract_cost_from_record (and generate_summary's copy of
\* it) catches around float().
CaughtByCostParse == {"ValueError", "TypeError"}

\* The cost of a cost field: [exc, val]; exc # "none" is an exception that
\* leaves the function.
CostOf(field) ==
  LET cost_field == IF field.t = "absent" THEN JStr(<<"0">>) ELSE field
      f == float(cost_field)
  IN  IF ~truthy(cost_field) THEN [exc |-> "none", val |-> 0]
      ELSE IF f.exc \in CaughtByCostParse THEN [exc |-> "none", val |-> 0]
      ELSE f

\* SchoolERateAnalyzer.extract_cost_from_record
extract_cost_from_record(record) ==
  CostOf(record.pre_discount_extended_eligible_line_item_costs)

\* SchoolERateAnalyzer.filter_record: None, or the line item. The
\* organization name and the form version are not looked at.
school_filter_record(record) ==
  LET manufacturer == record.form_471_manufacturer_name
  IN  IF ~is_target_vendor(school_vendor_mappings, manufacturer) THEN None
      ELSE [funding_year |-> record.funding_year,
            application_number |-> record.application_number,
            organization_name |-> record.organization_name,
            form_471_manufacturer_name |-> manufacturer,
            standardized_vendor |->
              get_standardized_vendor(school_vendor_mappings, manufacturer),
            model_of_equipment |-> record.model_of_equipment,
            one_time_quantity |-> record.one_time_quantity,
            cost |-> extract_cost_from_record(record).val]

\* SchoolERateAnalyzer.process_year_data: the records filter_record keeps,
\* in their order.
RECURSIVE process_year_data(_)
process_year_data(raw_data) ==
  IF raw_data = <<>> THEN <<>>
  ELSE LET filtered_record == school_filter_record(Head(raw_data))
       IN  IF filtered_record = None THEN process_year_data(Tail(raw_data))
           ELSE <<filtered_record>> \o process_year_data(Tail(raw_data))

\* ERateDataProcessor.filter_record: the return statement that ends it
year_filter_record_returns_at(record) ==
  IF strip(record.form_version) # <<"C","u","r","r","e","n","t">> THEN "form_version"
  ELSE IF ~is_target_vendor(year_vendor_mappings, record.form_471_manufacturer_name)
  THEN "vendor"
  ELSE "filtered_record"

\* ERateDataProcessor.filter_record, were the form version not looked at
year_filter_record_any_version(record) ==
  LET manufacturer == record.form_471_manufacturer_name
  IN  IF ~is_target_vendor(year_vendor_mappings, manufacturer) THEN None
      ELSE [funding_year |-> record.funding_year,
            application_number |-> record.application_number,
            state |-> record.state,
            organization_name |-> record.organization_name,
            form_471_manufacturer_name |-> manufacturer,
            standardized_vendor |->
              get_standardized_vendor(year_vendor_mappings, manufacturer),
            model_of_equipment |-> record.model_of_equipment,
            one_time_quantity |-> record.one_time_quantity,
            pre_discount_extended_eligible_line_item_costs |->
              record.pre_discount_extended_eligible_line_item_costs]

\* ERateDataProcessor.filter_record: form version first, then the vendor;
\* the cost field is copied as it is (extract_cost_fields).
year_filter_record(record) ==
  LET manufacturer == record.form_471_manufacturer_name
  IN  IF strip(record.form_version) # <<"C","u","r","r","e","n","t">> THEN None
      ELSE IF ~is_target_vendor(year_vendor_mappings, manufacturer) THEN None
      ELSE [funding_year |-> record.funding_year,
            application_number |-> record.application_number,
            state |-> record.state,
            organization_name |-> record.organization_name,
            form_471_manufacturer_name |-> manufacturer,
            standardized_vendor |->
              get_standardized_vendor(year_vendor_mappings, manufacturer),
            model_of_equipment |-> record.model_of_equipment,
            one_time_quantity |-> record.one_time_quantity,
            pre_discount_extended_eligible_line_item_costs |->
              record.pre_discount_extended_eligible_line_item_costs]

\* ERateDataProcessor.process_data
RECURSIVE process_data(_)
process_data(raw_data) ==
  IF raw_data = <<>> THEN <<>>
  ELSE LET filtered_record == year_filter_record(Head(raw_data))
       IN  IF filtered_record = None THEN process_data(Tail(raw_data))
           ELSE <<filtered_record>> \o process_data(Tail(raw_data))

\* An exception leaves process_year_data: the cost parse of a kept record
\* raised one that extract_cost_from_record does not catch.
process_year_data_raises(raw_data) ==
  \E i \in 1..Len(raw_data) :
    /\ school_filter_record(raw_data[i]) # None
    /\ extract_cost_from_record(raw_data[i]).exc # "none"

\* -------------------------------------------------------------- aggregator

\* sum(costs): a left fold of float additions from 0
RECURSIVE py_sum(_, _)
py_sum(costs, acc) ==
  IF costs = <<>> THEN acc ELSE py_sum(Tail(costs), fadd(acc, Head(costs)))

Costs(items) == [i \in 1..Len(items) |-> items[i].cost]

\* The position of key in a sequence of entries with a field `key`, or 0.
KeyIndex(entries, key) ==
  IF \E i \in 1..Len(entries) : entries[i].key = key
  THEN CHOOSE i \in 1..Len(entries) : entries[i].key = key
  ELSE 0

\* generate_school_history_report, one pass of the loop over a year's
\* records: vendor_data[vendor]['total'] += cost;
\* vendor_data[vendor]['items'].append({...}). vendor_data is kept in
\* insertion order, as the dict is.
history_item(record) ==
  [model |-> record.model_of_equipment,
   quantity |-> record.one_time_quantity,
   cost |-> record.cost,
   app_number |-> record.application_number]

add_vendor_data(vendor_data, record) ==
  LET k == KeyIndex(vendor_data, record.standardized_vendor)
  IN  IF k = 0
      THEN Append(vendor_data,
                  [key |-> record.standardized_vendor, total |-> fadd(0, record.cost),
                   items |-> <<history_item(record)>>])
      ELSE [vendor_data EXCEPT ![k].total = fadd(@, record.cost),
                               ![k].items = Append(@, history_item(record))]

RECURSIVE school_vendor_data(_, _)
school_vendor_data(records, vendor_data) ==
  IF records = <<>> THEN vendor_data
  ELSE school_vendor_data(Tail(records), add_vendor_data(vendor_data, Head(records)))

\* generate_school_history_report, the first loop: processed_data keeps the
\* years with at least one line item (main_processed_data below is main's
\* own copy of that loop); total_all_years adds up each year's sum.
RECURSIVE school_total_all_years(_, _)
school_total_all_years(processed_data, total_all_years) ==
  IF processed_data = <<>> THEN total_all_years
  ELSE school_total_all_years(
         Tail(processed_data),
         fadd(total_all_years, py_sum(Costs(Head(processed_data).records), 0)))

\* sorted(strings)
RECURSIVE sorted_strs(_)
sorted_strs(strs) ==
  IF strs = <<>> THEN <<>>
  ELSE LET m == CHOOSE i \in 1..Len(strs) :
                  \A j \in 1..Len(strs) :
                    ~str_less(strs[j], strs[i]) /\ (strs[j] = strs[i] => i <= j)
       IN  <<strs[m]>> \o
           sorted_strs([k \in 1..(Len(strs) - 1) |-> IF k < m THEN strs[k] ELSE strs[k + 1]])

\* The records processed_data holds for a year.
RecordsOf(processed_data, year) ==
  processed_data[CHOOSE i \in 1..Len(processed_data) :
                   processed_data[i].year = year].records

\* generate_school_history_report, from processed_data on: years ascending,
\* each with its vendor_data.
history_years(processed_data) ==
  LET sorted_years ==
        sorted_strs([i \in 1..Len(processed_data) |-> processed_data[i].year])
  IN  [i \in 1..Len(sorted_years) |->
         [year |-> sorted_years[i],
          vendor_data |->
            school_vendor_data(RecordsOf(processed_data, sorted_years[i]), <<>>)]]

\* ---------------------------------------------------------------- renderer

\* sorted(entries, key=total, reverse=True): descending, and stable (entries
\* with equal totals stay in the order they are in).
RECURSIVE sorted_by_total(_)
sorted_by_total(entries) ==
  IF entries = <<>> THEN <<>>
  ELSE LET m == CHOOSE i \in 1..Len(entries) :
                  \A j \in 1..Len(entries) :
                    /\ entries[j].total <= entries[i].total
                    /\ entries[j].total = entries[i].total => i <= j
       IN  <<entries[m]>> \o
           sorted_by_total([k \in 1..(Len(entries) - 1) |->
                              IF k < m THEN entries[k] ELSE entries[k + 1]])

\* the items left in the order they arrived in
sorted_by_cost_not_at_all(items) == items

\* sorted(items, key=cost, reverse=True): descending, and stable.
RECURSIVE sorted_by_cost(_)
sorted_by_cost(items) ==
  IF items = <<>> THEN <<>>
  ELSE LET m == CHOOSE i \in 1..Len(items) :
                  \A j \in 1..Len(items) :
                    /\ items[j].cost <= items[i].cost
                    /\ items[j].cost = items[i].cost => i <= j
       IN  <<items[m]>> \o
           sorted_by_cost([k \in 1..(Len(items) - 1) |->
                             IF k < m THEN items[k] ELSE items[k + 1]])

Str_Ellipsis == <<".", ".", ".">>

\* the truncation that forgets the room the ellipsis takes
truncate_model_at_45(model) ==
  IF Len(model) > 45 THEN Take(model, 45) \o Str_Ellipsis ELSE model

\* if len(model) > 45: model = model[:42] + "..."
truncate_model(model) ==
  IF Len(model) > 45 THEN Take(model, 42) \o Str_Ellipsis ELSE model

\* f"(App {app_number}) "
app_info_of(app_number) == <<"(", "A", "p", "p", " ">> \o app_number \o <<")", " ">>

\* generate_school_history_report, the label of an item row: the model,
\* truncated, with the application number in front unless the model has a
\* parenthetical of its own.
history_label(item_model, app_number) ==
  LET model == truncate_model(item_model)
      app_info == app_info_of(app_number)
      available_space == 45 - Len(app_info) - 3
  IN  IF contains(item_model, <<"(">>) /\ contains(item_model, <<")">>) THEN model
      ELSE IF Len(app_info \o model) > 45
      THEN IF available_space > 10
           THEN app_info \o Take(model, available_space) \o Str_Ellipsis
           ELSE Take(model, 42) \o Str_Ellipsis
      ELSE app_info \o model

\* generate_summary, the label of an item row
summary_label(item_model) == truncate_model(item_model)

\* the threshold test the wrong way round
items_below_threshold(items, sku_threshold) ==
  SelectSeq(items, LAMBDA item : item.cost <= sku_threshold)

\* [item for item in items if item['cost'] >= sku_threshold]
items_above_threshold(items, sku_threshold) ==
  SelectSeq(items, LAMBDA item : item.cost >= sku_threshold)

\* One printed row of a report. kind: "vendor", "school", "item",
\* "no_items" (no single line items over the threshold) or "no_schools" (no
\* schools above the threshold).
ReportRow(kind, year, vendor, school, label, cost) ==
  [kind |-> kind, year |-> year, vendor |-> vendor, school |-> school,
   label |-> label, cost |-> cost]

RECURSIVE flatten(_)
flatten(seqs) == IF seqs = <<>> THEN <<>> ELSE Head(seqs) \o flatten(Tail(seqs))

\* the rows under one vendor line, with nothing printed when no item is shown
history_item_rows_or_nothing(year, vendor, items, sku_threshold) ==
  LET shown == sorted_by_cost(items_above_threshold(items, sku_threshold))
  IN  [i \in 1..Len(shown) |->
         ReportRow("item", year, vendor, <<>>,
                   history_label(shown[i].model, shown[i].app_number), shown[i].cost)]

\* generate_school_history_report, the rows under one vendor line
history_item_rows(year, vendor, items, sku_threshold) ==
  LET shown == sorted_by_cost(items_above_threshold(items, sku_threshold))
  IN  IF shown = <<>> THEN <<ReportRow("no_items", year, vendor, <<>>, <<>>, 0)>>
      ELSE [i \in 1..Len(shown) |->
              ReportRow("item", year, vendor, <<>>,
                        history_label(shown[i].model, shown[i].app_number),
                        shown[i].cost)]

\* generate_school_history_report, one vendor of a year: its line and the
\* rows under it
history_vendor_rows(year, data, sku_threshold) ==
  <<ReportRow("vendor", year, data.key, <<>>, <<>>, data.total)>> \o
  history_item_rows(year, data.key, data.items, sku_threshold)

\* generate_school_history_report, one year: its vendors by descending total
history_year_rows(y, sku_threshold) ==
  LET sorted_vendors == sorted_by_total(y.vendor_data)
  IN  flatten([i \in 1..Len(sorted_vendors) |->
                 history_vendor_rows(y.year, sorted_vendors[i], sku_threshold)])

\* generate_school_history_report, the body of the report
history_rows(years, sku_threshold) ==
  flatten([i \in 1..Len(years) |-> history_year_rows(years[i], sku_threshold)])

\* generate_summary, the item rows under one school line: the items by
\* descending cost, those at or over the threshold
summary_item_rows(vendor, school, items, sku_threshold) ==
  LET shown == items_above_threshold(sorted_by_cost(items), sku_threshold)
  IN  [i \in 1..Len(shown) |->
         ReportRow("item", <<>>, vendor, school, summary_label(shown[i].model),
                   shown[i].cost)]

\* generate_summary, one school of a vendor, were the item rows printed
\* outside the test of the school's total
summary_school_rows_items_always(vendor, s, school_threshold, sku_threshold) ==
  (IF s.total >= school_threshold
   THEN <<ReportRow("school", <<>>, vendor, s.key, <<>>, s.total)>>
   ELSE <<>>) \o
  summary_item_rows(vendor, s.key, s.items, sku_threshold)

\* generate_summary, one school of a vendor: nothing under the threshold,
\* else its line and its item rows
summary_school_rows(vendor, s, school_threshold, sku_threshold) ==
  IF s.total >= school_threshold
  THEN <<ReportRow("school", <<>>, vendor, s.key, <<>>, s.total)>> \o
       summary_item_rows(vendor, s.key, s.items, sku_threshold)
  ELSE <<>>

\* generate_summary, one vendor: its line, then its schools by descending
\* total, or the 'no schools above threshold' line when none is shown
summary_vendor_rows(v, school_threshold, sku_threshold) ==
  LET school_totals == sorted_by_total(v.schools)
      shown == flatten([i \in 1..Len(school_totals) |->
                          summary_school_rows(v.key, school_totals[i],
                                              school_threshold, sku_threshold)])
  IN  <<ReportRow("vendor", <<>>, v.key, <<>>, <<>>, v.total)>> \o
      (IF shown = <<>> THEN <<ReportRow("no_schools", <<>>, v.key, <<>>, <<>>, 0)>>
       ELSE shown)

\* generate_summary, the vendor breakdown: vendors by descending total
summary_rows(vendors, school_threshold, sku_threshold) ==
  LET sorted_vendors == sorted_by_total(vendors)
  IN  flatten([i \in 1..Len(sorted_vendors) |->
                 summary_vendor_rows(sorted_vendors[i], school_threshold, sku_threshold)])

\* SchoolERateAnalyzer.generate_school_history_report: what it reports, given
\* all_data and the processed_data its first loop makes of it. kind: "no_data"
\* (all_data empty), "no_equipment" (no line item in any year) or "report".
generate_school_history_report(all_data, processed_data, sku_threshold) ==
  IF all_data = <<>>
  THEN [kind |-> "no_data", total_all_years |-> 0, years |-> <<>>, rows |-> <<>>]
  ELSE IF processed_data = <<>>
  THEN [kind |-> "no_equipment", total_all_years |-> 0, years |-> <<>>, rows |-> <<>>]
  ELSE [kind |-> "report",
        total_all_years |-> school_total_all_years(processed_data, 0),
        years |-> history_years(processed_data),
        rows |-> history_rows(history_years(processed_data), sku_threshold)]

\* generate_summary, one pass of the loop, the part that reads the record:
\* vendor, school, cost and item_info.
summary_entry(record) ==
  [vendor |-> record.standardized_vendor,
   school |-> record.organization_name,
   cost |-> CostOf(record.pre_discount_extended_eligible_line_item_costs).val,
   model |-> record.model_of_equipment,
   quantity |-> record.one_time_quantity]

item_info(e) == [model |-> e.model, quantity |-> e.quantity, cost |-> e.cost]

\* school_vendor_totals[vendor][school] += cost;
\* school_vendor_items[vendor][school].append(item_info)
add_school(schools, e) ==
  LET s == KeyIndex(schools, e.school)
  IN  IF s = 0
      THEN Append(schools, [key |-> e.school, total |-> fadd(0, e.cost),
                            items |-> <<item_info(e)>>])
      ELSE [schools EXCEPT ![s].total = fadd(@, e.cost),
                           ![s].items = Append(@, item_info(e))]

\* vendor_counts[vendor] += 1; vendor_totals[vendor] += cost
add_vendor(vendors, e) ==
  LET v == KeyIndex(vendors, e.vendor)
  IN  IF v = 0
      THEN Append(vendors, [key |-> e.vendor, count |-> 1, total |-> fadd(0, e.cost),
                            schools |-> add_school(<<>>, e)])
      ELSE [vendors EXCEPT ![v].count = @ + 1,
                           ![v].total = fadd(@, e.cost),
                           ![v].schools = add_school(@, e)]

\* generate_summary, the loop over the records: vendor_counts, vendor_totals
\* (one entry per vendor, in insertion order), total_funding, and
\* school_vendor_totals / school_vendor_items (per vendor, per school).
RECURSIVE year_fold(_, _)
year_fold(data, acc) ==
  IF data = <<>> THEN acc
  ELSE year_fold(Tail(data),
                 [vendors |-> add_vendor(acc.vendors, summary_entry(Head(data))),
                  total_funding |->
                    fadd(acc.total_funding, summary_entry(Head(data)).cost)])

\* An exception leaves generate_summary's loop: a cost parse raised one the
\* except clause does not catch.
generate_summary_raises(data) ==
  \E i \in 1..Len(data) :
    CostOf(data[i].pre_discount_extended_eligible_line_item_costs).exc # "none"

\* ERateDataProcessor.generate_summary: what it reports. kind: "no_data" or
\* "summary".
generate_summary(data, school_threshold, sku_threshold) ==
  IF data = <<>>
  THEN [kind |-> "no_data", vendors |-> <<>>, total_funding |-> 0, rows |-> <<>>]
  ELSE LET acc == year_fold(data, [vendors |-> <<>>, total_funding |-> 0])
       IN  [kind |-> "summary", vendors |-> acc.vendors,
            total_funding |-> acc.total_funding,
            rows |-> summary_rows(acc.vendors, school_threshold, sku_threshold)]

\* ------------------------------------------------------------- data source

\* A string argument argparse left at None.
NoneStr == <<"None">>

\* bool(s) of a string argument: neither None nor empty
given(s) == s # NoneStr /\ s # <<>>

Str_Current == <<"C","u","r","r","e","n","t">>
Str_Original == <<"O","r","i","g","i","n","a","l">>

\* One row of the data set. Fields the model does not vary are fixed here.
Row(funding_year, organization_name, state, form_version, manufacturer, cost_field) ==
  [funding_year |-> funding_year,
   organization_name |-> organization_name,
   state |-> state,
   form_version |-> form_version,
   form_471_manufacturer_name |-> manufacturer,
   pre_discount_extended_eligible_line_item_costs |-> cost_field,
   model_of_equipment |-> <<"M","X">>,
   one_time_quantity |-> <<"2">>,
   application_number |-> <<"7">>]

ACME == <<"A","C","M","E">>
Acme_HS == <<"A","c","m","e"," ","H","S">>
Y2021 == <<"2","0","2","1">>
Y2023 == <<"2","0","2","3">>
Y2024 == <<"2","0","2","4">>
CA == <<"C","A">>
OK == <<"O","K">>
Cisco == <<"C","i","s","c","o">>
HPE_sp == <<" ","H","P","E">>
Meraki == <<"m","e","r","a","k","i">>
Zyxel == <<"Z","y","x","e","l">>

\* The data sets an organization-history or discovery run may meet.
SchoolDatasets ==
  { <<>>,
    \* exact matches in 2021, one of them a superseded filing
    << Row(Y2021, ACME, CA, Str_Current, Cisco, JStr(<<"1">>)),
       Row(Y2021, ACME, CA, Str_Current, HPE_sp, JStr(<<"1">>)),
       Row(Y2021, ACME, CA, Str_Original, Cisco, JStr(<<"8">>)),
       Row(Y2021, ACME, CA, Str_Current, Cisco, JStr(<<"8">>)),
       Row(Y2021, ACME, CA, Str_Current, Cisco, JStr(<<"1">>)) >>,
    \* no exact match in any year, a substring match in 2023
    << Row(Y2023, Acme_HS, CA, Str_Current, Meraki, JStr(<<"8">>)),
       Row(Y2023, Acme_HS, <<>>, Str_Current, Cisco, JStr(<<"-","1">>)) >>,
    \* matches, none of a target vendor
    << Row(Y2024, ACME, CA, Str_Current, Zyxel, JStr(<<"8">>)) >>,
    \* cost fields that hold no number
    << Row(Y2024, ACME, CA, Str_Current, Cisco, JAbsent),
       Row(Y2024, ACME, CA, Str_Current, Cisco, JNull),
       Row(Y2024, ACME, CA, Str_Current, Cisco, JStr(<<>>)),
       Row(Y2024, ACME, CA, Str_Current, Cisco, JList(1)),
       Row(Y2024, ACME, CA, Str_Current, Cisco, JStr(<<"x","8">>)),
       Row(Y2024, ACME, CA, Str_Current, Cisco, JNum(8)),
       Row(Y2024, ACME, CA, Str_Current, Cisco, JBool(TRUE)) >> }

\* The rows a state/year data set is made of.
YearCatalog ==
  { Row(Y2024, ACME, OK, Str_Current, Cisco, JStr(<<"8">>)),
    Row(Y2024, ACME, OK, Str_Current, Cisco, JStr(<<"1">>)),
    Row(Y2024, Acme_HS, OK, Str_Current, HPE_sp, JStr(<<"1">>)),
    Row(Y2024, Acme_HS, OK, Str_Current, Cisco, JStr(<<"-","1">>)),
    Row(Y2024, ACME, OK, Str_Original, Cisco, JStr(<<"8">>)),
    Row(Y2024, ACME, OK, Str_Current, Cisco, JList(1)),
    Row(Y2024, ACME, OK, Str_Current, Cisco, JBool(TRUE)) }

SeqsUpTo(S, n) == UNION { [1..k -> S] : k \in 0..n }

YearDatasets == SeqsUpTo(YearCatalog, MaxRecords)

\* What can go wrong with a request: requests.exceptions.RequestException
\* (transport, HTTP status) or json.JSONDecodeError (the body does not parse).
RequestErrors == {"RequestException", "JSONDecodeError"}

\* $where of fetch_data_for_year, exact match
where_exact(r, year, org) ==
  /\ r.funding_year = year
  /\ r.form_version = Str_Current
  /\ upper(r.organization_name) = upper(org)

\* $where of fetch_data_for_year, partial match
where_partial(r, year, org) ==
  /\ r.funding_year = year
  /\ r.form_version = Str_Current
  /\ contains(upper(r.organization_name), upper(org))

\* $where of find_schools
where_search(r, term, state_filter) ==
  /\ contains(upper(r.organization_name), upper(term))
  /\ given(state_filter) => upper(r.state) = upper(state_filter)

\* $where of fetch_data (state/year)
where_state_year(r, year, state) ==
  /\ r.funding_year = year
  /\ r.state = state

\* ------------------------------------------------------------------- state

VARIABLES
  prog,               \* "school" (usac_school_query.py) or "year" (usac_year_query.py)
  args,               \* the Namespace parse_arguments returned
  pc,                 \* where main() is
  exit_status,        \* -1 while running, then the process's exit status
  db,                 \* the data source: [known, rows]; its rows are fixed by the first request
  requests,           \* the requests issued so far: [kind, year]
  failures,           \* how many of them failed
  organization_name,  \* school main: the stripped organization name / search term
  year,               \* fetch_all_years_data: the loop variable
  calls,              \* fetch_data_for_year: how each call ended
  all_data,           \* fetch_all_years_data: year -> rows, in insertion order
  results,            \* find_schools: what it returned
  raw_data,           \* year main: what fetch_data returned
  filtered_data,      \* year main: what process_data returned
  report,             \* what the report function reported
  files,              \* the files written
  out                 \* the lines printed, by kind

vars ==
  <<prog, args, pc, exit_status, db, requests, failures, organization_name, year,
    calls, all_data, results, raw_data, filtered_data, report, files, out>>

\* range(2016, 2026)
FirstYear == 2016
EndYear == 2026

\* $limit of fetch_data_for_year and of find_schools
FetchLimit == 10000
SearchLimit == 1000

NoReport == [kind |-> "none"]

\* The Namespaces of usac_school_query.py: exactly one of the positional
\* organization and --find-school is given (argparse's required group).
SchoolArgs ==
  { a \in [find_school : {NoneStr, <<>>, <<" ">>, <<"A","C">>},
           organization : {NoneStr, <<" ">>, <<"a","c","m","e">>},
           state : {NoneStr, <<"C">>, <<"C","A">>},
           limit : {0, 50},
           sku_threshold : {-1, 2},
           save_csv : BOOLEAN] :
      /\ (a.find_school = NoneStr) # (a.organization = NoneStr)
      \* --state and --limit are read in discovery mode only
      /\ a.find_school = NoneStr => a.state = NoneStr /\ a.limit = 50 }

\* The Namespaces of usac_year_query.py.
YearArgs ==
  [state : {<<"o","k">>, <<"O">>},
   year : {Y2024, <<"2","0","x","4">>, <<"1","9","9","9">>},
   limit : {0, 50000},
   school_threshold : {-1, 9},
   sku_threshold : {-1, 2},
   save_csv : BOOLEAN,
   save_json : BOOLEAN]

Init ==
  /\ prog \in {"school", "year"}
  /\ args \in (IF prog = "school" THEN SchoolArgs ELSE YearArgs)
  /\ pc = "main"
  /\ exit_status = -1
  /\ db = [known |-> FALSE, rows |-> <<>>]
  /\ requests = <<>>
  /\ failures = 0
  /\ organization_name = <<>>
  /\ year = FirstYear
  /\ calls = <<>>
  /\ all_data = <<>>
  /\ results = <<>>
  /\ raw_data = <<>>
  /\ filtered_data = <<>>
  /\ report = NoReport
  /\ files = {}
  /\ out = <<>>

\* sys.exit(status) after printing `line`
Exit(status, lines) ==
  /\ pc' = "exit"
  /\ exit_status' = status
  /\ out' = out \o lines

\* The data sets the data source may hold when the first request reaches it.
Datasets == IF prog = "school" THEN SchoolDatasets ELSE YearDatasets

\* The rows of the data source that satisfy Test, at most limit of them.
Select(rows, Test(_), limit) == Take(SelectSeq(rows, Test), limit)

\* ---------------------------------------------- usac_school_query.py: main

\* main, up to the first request: the mode and the validation of its arguments.
SchoolMain ==
  /\ prog = "school" /\ pc = "main"
  /\ IF given(args.find_school)
     THEN LET search_term == strip(args.find_school)
          IN  IF search_term = <<>>
              THEN Exit(1, <<"error_search_term_empty">>) /\ UNCHANGED organization_name
              ELSE IF given(args.state) /\ Len(args.state) # 2
              THEN Exit(1, <<"error_state">>) /\ UNCHANGED organization_name
              ELSE IF args.limit <= 0
              THEN Exit(1, <<"error_limit">>) /\ UNCHANGED organization_name
              ELSE /\ pc' = "find_schools"
                   /\ organization_name' = search_term
                   /\ UNCHANGED <<exit_status, out>>
     ELSE IF args.organization = NoneStr
          \* None.strip(): AttributeError, uncaught
          THEN Exit(1, <<"traceback">>) /\ UNCHANGED organization_name
          ELSE IF strip(args.organization) = <<>>
          THEN Exit(1, <<"error_organization_empty">>) /\ UNCHANGED organization_name
          ELSE IF args.sku_threshold < 0
          THEN Exit(1, <<"error_sku_threshold">>) /\ UNCHANGED organization_name
          ELSE /\ pc' = "fetch_exact"
               /\ organization_name' = strip(args.organization)
               /\ out' = Append(out, "starting")
               /\ UNCHANGED exit_status
  /\ UNCHANGED <<prog, args, db, requests, failures, year, calls, all_data, results,
                 raw_data, filtered_data, report, files>>

\* find_schools, the loop over the rows: one entry per stripped organization
\* name in insertion order, with the last non-empty state and the set of
\* funding years.
RECURSIVE org_data_of(_, _)
org_data_of(data, org_data) ==
  IF data = <<>> THEN org_data
  ELSE LET record == Head(data)
           org_name == strip(record.organization_name)
           org_state == strip(record.state)
           fy == record.funding_year
           k == KeyIndex(org_data, org_name)
           entry == IF k = 0 THEN [key |-> org_name, state |-> <<>>, years |-> {}]
                    ELSE org_data[k]
           entry1 == [entry EXCEPT
                        !.state = IF org_state # <<>> THEN org_state ELSE @,
                        !.years = IF fy # <<>> THEN @ \cup {fy} ELSE @]
           next == IF org_name = <<>> THEN org_data
                   ELSE IF k = 0 THEN Append(org_data, entry1)
                   ELSE [org_data EXCEPT ![k] = entry1]
       IN  org_data_of(Tail(data), next)

\* sorted(list(a set of strings))
RECURSIVE sorted_set(_)
sorted_set(S) ==
  IF S = {} THEN <<>>
  ELSE LET m == CHOOSE x \in S : \A y \in S : ~str_less(y, x)
       IN  <<m>> \o sorted_set(S \ {m})

\* results.sort(key=lambda x: x[0].upper()): stable
RECURSIVE sort_by_upper_name(_)
sort_by_upper_name(rs) ==
  IF rs = <<>> THEN <<>>
  ELSE LET m == CHOOSE i \in 1..Len(rs) :
                  \A j \in 1..Len(rs) :
                    /\ ~str_less(upper(rs[j].key), upper(rs[i].key))
                    /\ upper(rs[j].key) = upper(rs[i].key) => i <= j
           rest == [k \in 1..(Len(rs) - 1) |-> IF k < m THEN rs[k] ELSE rs[k + 1]]
       IN  <<rs[m]>> \o sort_by_upper_name(rest)

\* find_schools, were the list cut to the limit before it is sorted
find_schools_results_cut_first(data, limit) ==
  LET org_data == org_data_of(data, <<>>)
      results0 == [i \in 1..Len(org_data) |->
                     [key |-> org_data[i].key, state |-> org_data[i].state,
                      years |-> sorted_set(org_data[i].years)]]
  IN  sort_by_upper_name(Take(results0, limit))

\* find_schools, from the response to the return value
find_schools_results(data, limit) ==
  LET org_data == org_data_of(data, <<>>)
      results0 == [i \in 1..Len(org_data) |->
                     [key |-> org_data[i].key, state |-> org_data[i].state,
                      years |-> sorted_set(org_data[i].years)]]
  IN  Take(sort_by_upper_name(results0), limit)

\* The exceptions find_schools, fetch_data_for_year and fetch_data catch.
find_schools_caught == {"RequestException", "JSONDecodeError"}

\* fetch_data_for_year with one of its except clauses missing
fetch_data_for_year_caught_transport_only == {"RequestException"}
fetch_data_for_year_caught_parse_only == {"JSONDecodeError"}

fetch_data_for_year_caught == {"RequestException", "JSONDecodeError"}

fetch_data_caught == {"RequestException", "JSONDecodeError"}

\* The rows the data source answers from: those it is known to hold, or any
\* data set when this is the first request to reach it.
RowsChoice == IF db.known THEN {db.rows} ELSE Datasets

\* find_schools: the request succeeds.
FindSchoolsOk ==
  /\ prog = "school" /\ pc = "find_schools"
  /\ \E rows \in RowsChoice :
       LET Test(r) == where_search(r, organization_name, args.state)
           data == Select(rows, Test, SearchLimit)
       IN  /\ db' = [known |-> TRUE, rows |-> rows]
           /\ results' = find_schools_results(data, args.limit)
           /\ out' = out \o (IF data = <<>> THEN <<"no_organizations_found">>
                             ELSE <<"found_organizations">>)
  /\ requests' = Append(requests, [kind |-> "search", year |-> 0])
  /\ pc' = "display"
  /\ UNCHANGED <<prog, args, exit_status, failures, organization_name, year, calls,
                 all_data, raw_data, filtered_data, report, files>>

\* find_schools: the request fails; a caught error is printed and [] returned.
FindSchoolsFail ==
  /\ prog = "school" /\ pc = "find_schools"
  /\ failures < MaxFailures
  /\ \E e \in RequestErrors :
       IF e \in find_schools_caught
       THEN /\ out' = Append(out, "error_searching")
            /\ pc' = "display"
            /\ UNCHANGED exit_status
       ELSE Exit(1, <<"traceback">>)
  /\ failures' = failures + 1
  /\ requests' = Append(requests, [kind |-> "search", year |-> 0])
  /\ UNCHANGED <<prog, args, db, organization_name, year, calls, all_data, results,
                 raw_data, filtered_data, report, files>>

\* display_school_search_results, and main returns.
DisplaySearchResults ==
  /\ prog = "school" /\ pc = "display"
  /\ Exit(0, IF results = <<>> THEN <<"no_schools_found">> ELSE <<"search_results">>)
  /\ UNCHANGED <<prog, args, db, requests, failures, organization_name, year, calls,
                 all_data, results, raw_data, filtered_data, report, files>>

\* fetch_all_years_data, were a year whose request failed asked for again
ReturnYearData_again_after_failure(exact, partial, year_data, lines) ==
  LET failed == exact \in RequestErrors \/ partial \in RequestErrors
  IN  /\ calls' = Append(calls, [year |-> year, exact |-> exact, partial |-> partial,
                                 outcome |-> "return", ret |-> year_data])
      /\ all_data' = IF year_data # <<>>
                     THEN Append(all_data, [year |-> str_of_int(year), data |-> year_data])
                     ELSE all_data
      /\ year' = IF failed THEN year ELSE year + 1
      /\ pc' = IF ~failed /\ year + 1 = EndYear THEN "fetched" ELSE "fetch_exact"
      /\ out' = out \o lines
      /\ UNCHANGED exit_status

\* fetch_data_for_year returns year_data to fetch_all_years_data, which keeps
\* it when it is not empty and goes on to the next year.
ReturnYearData(exact, partial, year_data, lines) ==
  /\ calls' = Append(calls, [year |-> year, exact |-> exact, partial |-> partial,
                             outcome |-> "return", ret |-> year_data])
  /\ all_data' = IF year_data # <<>>
                 THEN Append(all_data, [year |-> str_of_int(year), data |-> year_data])
                 ELSE all_data
  /\ year' = year + 1
  /\ pc' = IF year + 1 = EndYear THEN "fetched" ELSE "fetch_exact"
  /\ out' = out \o lines
  /\ UNCHANGED exit_status

\* An exception leaves fetch_data_for_year: nothing in fetch_all_years_data
\* or main catches it.
RaiseFromFetch(exact, partial) ==
  /\ calls' = Append(calls, [year |-> year, exact |-> exact, partial |-> partial,
                             outcome |-> "raise", ret |-> <<>>])
  /\ Exit(1, <<"traceback">>)
  /\ UNCHANGED <<all_data, year>>

\* fetch_data_for_year without its fallback
exact_is_empty_never(data) == FALSE

\* fetch_data_for_year, `if not data` after the exact-match request
exact_is_empty(data) == data = <<>>

\* fetch_data_for_year: the exact-match request succeeds.
FetchExactOk ==
  /\ prog = "school" /\ pc = "fetch_exact"
  /\ \E rows \in RowsChoice :
       LET Test(r) == where_exact(r, str_of_int(year), organization_name)
           data == Select(rows, Test, FetchLimit)
       IN  /\ db' = [known |-> TRUE, rows |-> rows]
           /\ IF exact_is_empty(data)
              THEN /\ pc' = "fetch_partial"
                   /\ out' = Append(out, "no_exact_match")
                   /\ UNCHANGED <<calls, all_data, year, exit_status>>
              ELSE ReturnYearData("ok", "none", data, <<"found_records">>)
  /\ requests' = Append(requests, [kind |-> "exact", year |-> year])
  /\ UNCHANGED <<prog, args, failures, organization_name, results, raw_data,
                 filtered_data, report, files>>

\* fetch_data_for_year: the exact-match request fails.
FetchExactFail ==
  /\ prog = "school" /\ pc = "fetch_exact"
  /\ failures < MaxFailures
  /\ \E e \in RequestErrors :
       IF e \in fetch_data_for_year_caught
       THEN ReturnYearData(e, "none", <<>>, <<"error_fetching">>)
       ELSE RaiseFromFetch(e, "none")
  /\ failures' = failures + 1
  /\ requests' = Append(requests, [kind |-> "exact", year |-> year])
  /\ UNCHANGED <<prog, args, db, organization_name, results, raw_data,
                 filtered_data, report, files>>

\* fetch_data_for_year: the partial-match request succeeds.
FetchPartialOk ==
  /\ prog = "school" /\ pc = "fetch_partial"
  /\ \E rows \in RowsChoice :
       LET Test(r) == where_partial(r, str_of_int(year), organization_name)
           data == Select(rows, Test, FetchLimit)
       IN  /\ db' = [known |-> TRUE, rows |-> rows]
           /\ ReturnYearData("ok", "ok", data, <<"found_records">>)
  /\ requests' = Append(requests, [kind |-> "partial", year |-> year])
  /\ UNCHANGED <<prog, args, failures, organization_name, results, raw_data,
                 filtered_data, report, files>>

\* fetch_data_for_year: the partial-match request fails.
FetchPartialFail ==
  /\ prog = "school" /\ pc = "fetch_partial"
  /\ failures < MaxFailures
  /\ \E e \in RequestErrors :
       IF e \in fetch_data_for_year_caught
       THEN ReturnYearData("ok", e, <<>>, <<"error_fetching">>)
       ELSE RaiseFromFetch("ok", e)
  /\ failures' = failures + 1
  /\ requests' = Append(requests, [kind |-> "partial", year |-> year])
  /\ UNCHANGED <<prog, args, db, organization_name, results, raw_data,
                 filtered_data, report, files>>

\* main, after fetch_all_years_data: the 'no data' exit, or processed_data.
RECURSIVE main_processed_data(_)
main_processed_data(data) ==
  IF data = <<>> THEN <<>>
  ELSE LET processed_records == process_year_data(Head(data).data)
           rest == main_processed_data(Tail(data))
       IN  IF processed_records = <<>> THEN rest
           ELSE <<[year |-> Head(data).year, records |-> processed_records]>> \o rest

\* An uncaught exception while the rows of all_data are normalized.
all_data_raises(data) ==
  \E i \in 1..Len(data) : process_year_data_raises(data[i].data)

SchoolAfterFetch ==
  /\ prog = "school" /\ pc = "fetched"
  /\ IF all_data = <<>>
     THEN Exit(1, <<"no_data_found">>) /\ UNCHANGED filtered_data
     ELSE IF all_data_raises(all_data)
     THEN Exit(1, <<"traceback">>) /\ UNCHANGED filtered_data
     ELSE /\ filtered_data' = main_processed_data(all_data)
          /\ pc' = "report"
          /\ UNCHANGED <<exit_status, out>>
  /\ UNCHANGED <<prog, args, db, requests, failures, organization_name, year, calls,
                 all_data, results, raw_data, report, files>>

\* main: generate_school_history_report, then the end of main unless a CSV
\* file is asked for.
SchoolReport ==
  /\ prog = "school" /\ pc = "report"
  /\ LET r == generate_school_history_report(all_data, main_processed_data(all_data),
                                              args.sku_threshold)
         line == IF r.kind = "report" THEN "history_report" ELSE "no_equipment_data"
     IN  /\ report' = r
         /\ IF args.save_csv
            THEN /\ pc' = "save_csv"
                 /\ out' = Append(out, line)
                 /\ UNCHANGED exit_status
            ELSE Exit(0, <<line, "analysis_complete">>)
  /\ UNCHANGED <<prog, args, db, requests, failures, organization_name, year, calls,
                 all_data, results, raw_data, filtered_data, files>>

\* main: save_to_csv, then the end of main.
SchoolSaveCsv ==
  /\ prog = "school" /\ pc = "save_csv"
  /\ IF filtered_data = <<>>
     THEN Exit(0, <<"no_data_to_save", "analysis_complete">>) /\ UNCHANGED files
     ELSE Exit(0, <<"saved_csv", "analysis_complete">>) /\ files' = files \cup {"csv"}
  /\ UNCHANGED <<prog, args, db, requests, failures, organization_name, year, calls,
                 all_data, results, raw_data, filtered_data, report>>

\* ------------------------------------------------ usac_year_query.py: main

\* main, up to the request: the validation of its arguments.
YearMain ==
  /\ prog = "year" /\ pc = "main"
  /\ LET year_int == ParseInteger(args.year)
     IN  IF Len(args.state) # 2 THEN Exit(1, <<"error_state">>)
         ELSE IF ~year_int.ok THEN Exit(1, <<"error_year_integer">>)
         ELSE IF year_int.val < 2000 \/ year_int.val > 2030
         THEN Exit(1, <<"error_year_range">>)
         ELSE IF args.school_threshold < 0 THEN Exit(1, <<"error_school_threshold">>)
         ELSE IF args.sku_threshold < 0 THEN Exit(1, <<"error_sku_threshold">>)
         ELSE /\ pc' = "fetch"
              /\ out' = Append(out, "starting")
              /\ UNCHANGED exit_status
  /\ UNCHANGED <<prog, args, db, requests, failures, organization_name, year, calls,
                 all_data, results, raw_data, filtered_data, report, files>>

\* fetch_data: the request succeeds.
YearFetchOk ==
  /\ prog = "year" /\ pc = "fetch"
  /\ \E rows \in RowsChoice :
       LET Test(r) == where_state_year(r, args.year, upper(args.state))
       IN  /\ db' = [known |-> TRUE, rows |-> rows]
           /\ raw_data' = Select(rows, Test, args.limit)
  /\ requests' = Append(requests, [kind |-> "state_year", year |-> 0])
  /\ pc' = "process"
  /\ out' = Append(out, "fetched")
  /\ UNCHANGED <<prog, args, exit_status, failures, organization_name, year, calls,
                 all_data, results, filtered_data, report, files>>

\* fetch_data handling the error as fetch_data_for_year does: print, return []
YearFetchFail_ReturnsEmpty ==
  /\ prog = "year" /\ pc = "fetch"
  /\ failures < MaxFailures
  /\ failures' = failures + 1
  /\ requests' = Append(requests, [kind |-> "state_year", year |-> 0])
  /\ raw_data' = <<>>
  /\ pc' = "process"
  /\ out' = Append(out, "error_fetching")
  /\ UNCHANGED <<prog, args, exit_status, db, organization_name, year, calls, all_data,
                 results, filtered_data, report, files>>

\* fetch_data: the request fails, and fetch_data ends the process.
YearFetchFail ==
  /\ prog = "year" /\ pc = "fetch"
  /\ failures < MaxFailures
  /\ \E e \in RequestErrors :
       IF e \in fetch_data_caught THEN Exit(1, <<"error_fetching">>)
       ELSE Exit(1, <<"traceback">>)
  /\ failures' = failures + 1
  /\ requests' = Append(requests, [kind |-> "state_year", year |-> 0])
  /\ UNCHANGED <<prog, args, db, organization_name, year, calls, all_data, results,
                 raw_data, filtered_data, report, files>>

\* main: process_data
YearProcess ==
  /\ prog = "year" /\ pc = "process"
  /\ filtered_data' = process_data(raw_data)
  /\ pc' = IF args.save_csv THEN "save_csv"
           ELSE IF args.save_json THEN "save_json" ELSE "summary"
  /\ out' = Append(out, "processed")
  /\ UNCHANGED <<prog, args, exit_status, db, requests, failures, organization_name,
                 year, calls, all_data, results, raw_data, report, files>>

\* main: save_to_csv, which writes nothing when there is no record
YearSaveCsv ==
  /\ prog = "year" /\ pc = "save_csv"
  /\ IF filtered_data = <<>>
     THEN out' = Append(out, "no_data_to_save") /\ UNCHANGED files
     ELSE out' = Append(out, "saved_csv") /\ files' = files \cup {"csv"}
  /\ pc' = IF args.save_json THEN "save_json" ELSE "summary"
  /\ UNCHANGED <<prog, args, exit_status, db, requests, failures, organization_name,
                 year, calls, all_data, results, raw_data, filtered_data, report>>

\* main: save_to_json, which writes the file whatever the records
YearSaveJson ==
  /\ prog = "year" /\ pc = "save_json"
  /\ files' = files \cup {"json"}
  /\ out' = Append(out, "saved_json")
  /\ pc' = "summary"
  /\ UNCHANGED <<prog, args, exit_status, db, requests, failures, organization_name,
                 year, calls, all_data, results, raw_data, filtered_data, report>>

\* main: generate_summary, then the end of main.
YearSummary ==
  /\ prog = "year" /\ pc = "summary"
  /\ IF generate_summary_raises(filtered_data)
     THEN Exit(1, <<"traceback">>) /\ UNCHANGED report
     ELSE LET r == generate_summary(filtered_data, args.school_threshold,
                                    args.sku_threshold)
          IN  /\ report' = r
              /\ Exit(0, <<IF r.kind = "summary" THEN "summary" ELSE "no_data_for_summary",
                           "processing_complete">>)
  /\ UNCHANGED <<prog, args, db, requests, failures, organization_name, year, calls,
                 all_data, results, raw_data, filtered_data, files>>

\* --------------------------------------------------------- specification

Next ==
  \/ SchoolMain
  \/ FindSchoolsOk
  \/ FindSchoolsFail
  \/ DisplaySearchResults
  \/ FetchExactOk
  \/ FetchExactFail
  \/ FetchPartialOk
  \/ FetchPartialFail
  \/ SchoolAfterFetch
  \/ SchoolReport
  \/ SchoolSaveCsv
  \/ YearMain
  \/ YearFetchOk
  \/ YearFetchFail
  \/ YearProcess
  \/ YearSaveCsv
  \/ YearSaveJson
  \/ YearSummary

Spec == Init /\ [][Next]_vars

\* fetch_all_years_data: the requests of an organization-history run.
FetchAllYears ==
  \/ FetchExactOk
  \/ FetchExactFail
  \/ FetchPartialOk
  \/ FetchPartialFail

\* usac_school_query.py started with an organization name.
HistoryInit == Init /\ prog = "school" /\ args.find_school = NoneStr

\* The steps of an organization-history run.
HistoryNext ==
  \/ SchoolMain
  \/ FetchAllYears
  \/ SchoolAfterFetch
  \/ SchoolReport
  \/ SchoolSaveCsv

\* The organization-history run on its own. The program is one thread, and
\* every request ends, with a response or with an error (timeout=60): while
\* fetch_all_years_data runs, a request that can be made is made.
HistorySpec == HistoryInit /\ [][HistoryNext]_vars /\ WF_vars(FetchAllYears)

\* ------------------------------------------------- the functions on their own

\* A model name of n characters: no parenthesis, "(" first and ")" last, or
\* "(" only.
ModelName(n, paren) ==
  [i \in 1..n |-> IF paren # "none" /\ i = 1 THEN "("
                  ELSE IF paren = "both" /\ i = n /\ n > 1 THEN ")"
                  ELSE "M"]

\* An application number of n digits.
AppNumber(n) == [i \in 1..n |-> "7"]

\* The inputs of the item label.
LabelArgs ==
  [fn : {"label"},
   model : { ModelName(n, p) : n \in 0..MaxModelLen, p \in {"none", "both", "open"} },
   app_number : { AppNumber(n) : n \in 0..MaxAppNumberLen }]

\* the two programs, were they given one table
vendor_mappings_shared(table) == school_vendor_mappings

\* self.vendor_mappings of the two programs
vendor_mappings(table) ==
  IF table = "school" THEN school_vendor_mappings ELSE year_vendor_mappings

\* The ways a manufacturer name spells an alias: letter case and surrounding
\* blanks.
Spellings == {"lower", "upper", "title", "led", "trailed", "padded_upper"}

Spell(how, alias) ==
  CASE how = "lower" -> alias
    [] how = "upper" -> upper(alias)
    [] how = "title" -> title(alias)
    [] how = "led" -> <<" ">> \o alias
    [] how = "trailed" -> alias \o <<" ">>
    [] how = "padded_upper" -> <<" ", " ">> \o upper(alias) \o <<" ">>

\* Manufacturer names none of the tables lists: missing or empty, blank, an
\* alias with more around it, a part of an alias, an alias with a blank inside.
UnlistedNames ==
  { <<>>, <<" ">>, Zyxel, <<"U","n","k","n","o","w","n"," ","C","o","r","p">>, <<"c","i","s","c","o"," ","i","n","c">>,
    <<"m","y"," ","c","i","s","c","o">>, <<"c","i","s","c">>, <<"c","i"," ","s","c","o">>, <<"D","e","l","l","x">> }

\* The inputs of the vendor functions: a table and a manufacturer name;
\* listed is the entry of the table the name spells an alias of, 0 for none.
VendorArgs ==
  UNION { UNION { { [fn |-> "vendor", table |-> tb,
                     name |-> Spell(how, vendor_mappings(tb)[i].variants[j]),
                     listed |-> i] :
                      how \in Spellings, j \in 1..Len(vendor_mappings(tb)[i].variants) } :
                  i \in 1..Len(vendor_mappings(tb)) } :
          tb \in {"school", "year"} } \cup
  [fn : {"vendor"}, table : {"school", "year"}, name : UnlistedNames, listed : {0}]

\* Rows a search for "a" or "b" matches: names that differ in letter case
\* or in a blank at the end, in two funding years or without one.
SearchCatalog ==
  { Row(Y2024, <<"b">>, OK, Str_Current, Cisco, JStr(<<"1">>)),
    Row(Y2021, <<"b">>, OK, Str_Current, Cisco, JStr(<<"1">>)),
    Row(Y2021, <<"A","b">>, OK, Str_Current, Cisco, JStr(<<"1">>)),
    Row(Y2024, <<"a","b">>, <<>>, Str_Current, Cisco, JStr(<<"1">>)),
    Row(Y2024, <<"A","b"," ">>, CA, Str_Current, Cisco, JStr(<<"1">>)),
    Row(<<>>, <<"a","B","c">>, OK, Str_Current, Cisco, JStr(<<"1">>)) }

\* The inputs of find_schools' result processing: the rows of the response
\* and the limit.
SearchArgs ==
  [fn : {"find_schools"}, data : SeqsUpTo(SearchCatalog, MaxRecords), limit : 1..MaxRecords]

\* Form versions of a row: "Current" as it is, between blanks, in lower
\* case, another version, none.
FormVersions ==
  { Str_Current, <<" ">> \o Str_Current \o <<" ">>, Str_Current \o <<" ">>,
    lower(Str_Current), Str_Original, <<>> }

\* The inputs of the two normalizers: the form version and the manufacturer
\* of a row.
NormalizeArgs ==
  [fn : {"normalize"}, form_version : FormVersions,
   manufacturer : {Cisco, HPE_sp, Meraki, Zyxel, <<>>}]

\* The inputs of the comparison of the two programs' vendor functions: a
\* manufacturer name, a spelling of an alias of either table or a name
\* neither lists.
TaxonomyArgs ==
  [fn : {"taxonomies"}, name : { a.name : a \in VendorArgs }]

FnArgs == LabelArgs \cup VendorArgs \cup SearchArgs \cup NormalizeArgs \cup TaxonomyArgs

\* One function of the two programs, applied to one input.
FnInit ==
  /\ prog = "fn"
  /\ args \in FnArgs
  /\ pc = "main"
  /\ exit_status = -1
  /\ db = [known |-> FALSE, rows |-> <<>>]
  /\ requests = <<>>
  /\ failures = 0
  /\ organization_name = <<>>
  /\ year = FirstYear
  /\ calls = <<>>
  /\ all_data = <<>>
  /\ results = <<>>
  /\ raw_data = <<>>
  /\ filtered_data = <<>>
  /\ report = NoReport
  /\ files = {}
  /\ out = <<>>

\* The function returns: results holds what it returned.
FnReturn(values) ==
  /\ results' = values
  /\ pc' = "exit"
  /\ UNCHANGED <<prog, args, exit_status, db, requests, failures, organization_name,
                 year, calls, all_data, raw_data, filtered_data, report, files, out>>

\* The label of an item row, in the history report and in the summary.
RenderLabel ==
  /\ prog = "fn" /\ pc = "main" /\ args.fn = "label"
  /\ FnReturn(<<history_label(args.model, args.app_number), summary_label(args.model)>>)

\* The record of the data set that names a manufacturer.
RecordOf(manufacturer) ==
  Row(Y2024, ACME, OK, Str_Current, manufacturer, JStr(<<"1">>))

\* filter_record of the program the table belongs to
filter_record(table, record) ==
  IF table = "school" THEN school_filter_record(record) ELSE year_filter_record(record)

\* The vendor functions on one manufacturer name: is_target_vendor,
\* get_standardized_vendor, and filter_record on a record that names it.
Canonicalize ==
  /\ prog = "fn" /\ pc = "main" /\ args.fn = "vendor"
  /\ FnReturn(<<is_target_vendor(vendor_mappings(args.table), args.name),
                get_standardized_vendor(vendor_mappings(args.table), args.name),
                filter_record(args.table, RecordOf(args.name))>>)

\* find_schools on one response.
FindSchools ==
  /\ prog = "fn" /\ pc = "main" /\ args.fn = "find_schools"
  /\ FnReturn(find_schools_results(args.data, args.limit))

\* The row the normalizers are given.
RowOf(form_version, manufacturer) ==
  Row(Y2024, ACME, OK, form_version, manufacturer, JStr(<<"1">>))

\* The two filter_record on one row, and whether the two queries of
\* fetch_data_for_year select it.
Normalize ==
  /\ prog = "fn" /\ pc = "main" /\ args.fn = "normalize"
  /\ LET record == RowOf(args.form_version, args.manufacturer)
     IN  FnReturn(<<year_filter_record(record),
                    year_filter_record_returns_at(record),
                    school_filter_record(record),
                    where_exact(record, Y2024, lower(ACME)),
                    where_partial(record, Y2024, <<"c","m">>)>>)

\* is_target_vendor and get_standardized_vendor of the two programs on one
\* manufacturer name.
CompareTaxonomies ==
  /\ prog = "fn" /\ pc = "main" /\ args.fn = "taxonomies"
  /\ FnReturn(<<is_target_vendor(vendor_mappings("school"), args.name),
                is_target_vendor(vendor_mappings("year"), args.name),
                get_standardized_vendor(vendor_mappings("school"), args.name),
                get_standardized_vendor(vendor_mappings("year"), args.name)>>)

FnNext ==
  \/ RenderLabel
  \/ Canonicalize
  \/ FindSchools
  \/ Normalize
  \/ CompareTaxonomies

FnSpec == FnInit /\ [][FnNext]_vars

\* ------------------------------------------------------------ properties

Idx(s) == 1..Len(s)
Range(s) == { s[i] : i \in Idx(s) }

\* The requests of one kind issued for year y.
ExactRequests(y) == { i \in Idx(requests) : requests[i] = [kind |-> "exact", year |-> y] }
PartialRequests(y) ==
  { i \in Idx(requests) : requests[i] = [kind |-> "partial", year |-> y] }

\* The rows of the data set that match the organization exactly / as a
\* substring in year y.
ExactMatches(y) ==
  SelectSeq(db.rows, LAMBDA r : where_exact(r, str_of_int(y), organization_name))
PartialMatches(y) ==
  SelectSeq(db.rows, LAMBDA r : where_partial(r, str_of_int(y), organization_name))

CallFailed(c) == c.exact \in RequestErrors \/ c.partial \in RequestErrors

\* C1: in fetch_data_for_year the exact-match request comes first; the
\* partial-match request is issued if and only if the exact request succeeded
\* with zero rows, directly after it and for the same year; the call returns
\* the exact matches when there are some, otherwise the partial matches.
C1_ExactThenPartial ==
  /\ \A i \in Idx(requests) :
       /\ requests[i].kind = "partial" =>
            i > 1 /\ requests[i - 1] = [kind |-> "exact", year |-> requests[i].year]
       /\ requests[i].kind = "exact" =>
            \A j \in 1..(i - 1) : requests[j].year # requests[i].year
  /\ \A k \in Idx(calls) :
       LET c == calls[k]
           fallback == c.exact = "ok" /\ ExactMatches(c.year) = <<>>
       IN  /\ Cardinality(ExactRequests(c.year)) = 1
           /\ Cardinality(PartialRequests(c.year)) = IF fallback THEN 1 ELSE 0
           /\ c.exact = "ok" /\ ~fallback => c.ret = ExactMatches(c.year)
           /\ fallback /\ c.partial = "ok" => c.ret = PartialMatches(c.year)
  /\ pc = "fetch_partial" =>
       /\ requests[Len(requests)] = [kind |-> "exact", year |-> year]
       /\ ExactMatches(year) = <<>>

\* C1, its case: a call whose exact phase was empty and whose partial phase
\* returned the substring matches, after a call that returned exact matches.
C1_Witness ==
  /\ \E k \in Idx(calls) :
       /\ calls[k].partial = "ok" /\ calls[k].ret # <<>>
       /\ ExactMatches(calls[k].year) = <<>>
  /\ pc = "exit"

\* C2 as stated: when the exact-match request fails, no partial request is
\* issued for that year and the error reaches the caller instead of an empty
\* result.
C2_ErrorPropagates ==
  \A k \in Idx(calls) :
    calls[k].exact \in RequestErrors =>
      /\ PartialRequests(calls[k].year) = {}
      /\ calls[k].outcome = "raise"

\* C2, amended: when the exact-match request fails, no partial request is
\* issued for that year, and fetch_data_for_year catches the error, prints a
\* diagnostic and returns the empty list: the caller gets what it gets for an
\* empty result.
C2_ExactFailureReturnsEmpty ==
  \A k \in Idx(calls) :
    calls[k].exact \in RequestErrors =>
      /\ PartialRequests(calls[k].year) = {}
      /\ calls[k].partial = "none"
      /\ calls[k].outcome = "return"
      /\ calls[k].ret = <<>>
      /\ "error_fetching" \in Range(out)

C2_Witness ==
  \E k \in Idx(calls) :
    /\ calls[k].exact \in RequestErrors
    /\ ExactMatches(calls[k].year) = <<>> /\ PartialMatches(calls[k].year) # <<>>

\* The years of all_data with at least one row of a target vendor.
YearsWithLineItems ==
  { all_data[j].year : j \in { j \in Idx(all_data) :
      \E i \in Idx(all_data[j].data) :
        is_target_vendor(school_vendor_mappings,
                         all_data[j].data[i].form_471_manufacturer_name) } }

\* C3: in the organization-history run a failed request for year y is not
\* fatal: y contributes no rows, every year up to 2025 is still fetched, and
\* the run ends by reporting the years that did succeed (or 'no data').
C3_FailedYearSkipped ==
  /\ \A k \in Idx(calls) :
       CallFailed(calls[k]) =>
         /\ calls[k].outcome = "return"
         /\ \A j \in Idx(all_data) : all_data[j].year # str_of_int(calls[k].year)
  /\ calls # <<>> /\ pc \notin {"fetch_exact", "fetch_partial"} =>
       /\ Len(calls) = EndYear - FirstYear
       /\ \A y \in FirstYear..(EndYear - 1) : ExactRequests(y) # {}
  /\ calls # <<>> /\ pc = "exit" =>
       /\ "traceback" \notin Range(out)
       /\ IF all_data = <<>>
          THEN "no_data_found" \in Range(out) /\ report = NoReport
          ELSE /\ report.kind = IF YearsWithLineItems = {} THEN "no_equipment" ELSE "report"
               /\ { report.years[i].year : i \in Idx(report.years) } = YearsWithLineItems

\* C3, its case: a run that met a failed request, went on, and reported a
\* later year.
C3_Witness ==
  /\ pc = "exit" /\ report.kind = "report"
  /\ \E k \in Idx(calls) :
       /\ CallFailed(calls[k])
       /\ \E j \in Idx(all_data) :
            DigitsValue(all_data[j].year, 0) > calls[k].year

AfterFetchLines ==
  {"fetched", "processed", "saved_csv", "saved_json", "no_data_to_save", "summary",
   "no_data_for_summary", "processing_complete"}

\* C4: in the state/year run a failed fetch ends the run with a non-zero
\* exit status; nothing is normalized, written or reported after it.
C4_YearFetchFailureFatal ==
  prog = "year" /\ failures > 0 =>
    /\ pc = "exit" /\ exit_status # 0
    /\ raw_data = <<>> /\ filtered_data = <<>>
    /\ files = {}
    /\ report = NoReport
    /\ Range(out) \cap AfterFetchLines = {}

C4_Witness ==
  /\ prog = "year" /\ failures > 0
  /\ args.save_csv /\ args.save_json

\* The validation rules of the two command lines, over the arguments given.
ViolatesValidation ==
  IF prog = "school"
  THEN \/ args.find_school # NoneStr /\ strip(args.find_school) = <<>>
       \/ args.organization # NoneStr /\ strip(args.organization) = <<>>
       \/ given(args.state) /\ Len(args.state) # 2
       \/ args.limit <= 0
       \/ args.sku_threshold < 0
  ELSE \/ Len(args.state) # 2
       \/ ~ParseInteger(args.year).ok
       \/ ParseInteger(args.year).val < 2000 \/ ParseInteger(args.year).val > 2030
       \/ args.limit <= 0
       \/ args.school_threshold < 0
       \/ args.sku_threshold < 0

\* C5: a run whose arguments violate a validation rule issues no request,
\* produces no report or file, and ends with a non-zero exit status.
C5_ValidationAlwaysFatal ==
  ViolatesValidation =>
    /\ requests = <<>>
    /\ report = NoReport /\ files = {}
    /\ pc \in {"main", "exit"}
    /\ pc = "exit" => exit_status # 0

\* No record matched: nothing found (discovery), no year with rows
\* (history), no line item (state/year).
NoRecordMatched ==
  IF prog = "year" THEN filtered_data = <<>>
  ELSE IF given(args.find_school) THEN results = <<>>
  ELSE all_data = <<>>

NoDataLines == {"no_schools_found", "no_data_found", "no_data_for_summary"}

\* C6: a run whose requests all succeed and match no record ends in the
\* 'no data found' state, which is not an error: the exit status is 0,
\* unlike that of a run ended by a failure.
C6_NoDataIsNotAnError ==
  pc = "exit" /\ requests # <<>> /\ failures = 0 /\ NoRecordMatched =>
    /\ Range(out) \cap NoDataLines # {}
    /\ "traceback" \notin Range(out)
    /\ exit_status = 0

\* A cost field that holds no number: absent, null, a list, a boolean, the
\* empty string or a string that is not a number.
NoNumber(field) ==
  \/ field.t \in {"absent", "null", "list", "bool"}
  \/ field.t = "str" /\ ~ParseInteger(field.s).ok

\* The items of a node are the records of its key, one for one and in their
\* order, and an item whose record holds no number costs 0.
ItemsMatch(items, records) ==
  /\ Len(items) = Len(records)
  /\ \A i \in Idx(items) :
       NoNumber(records[i].pre_discount_extended_eligible_line_item_costs) =>
         items[i].cost = 0

\* The rows fetched for year y that the history report files under vendor v.
HistoryRows(y, v) ==
  SelectSeq(all_data[CHOOSE j \in Idx(all_data) : all_data[j].year = y].data,
            LAMBDA r :
              /\ is_target_vendor(school_vendor_mappings, r.form_471_manufacturer_name)
              /\ get_standardized_vendor(school_vendor_mappings,
                                         r.form_471_manufacturer_name) = v)

\* The line items the summary files under vendor v and school s.
SummaryRows(v, s) ==
  SelectSeq(filtered_data,
            LAMBDA r : r.standardized_vendor = v /\ r.organization_name = s)

\* C7: cost extraction never fails: a record whose cost field is absent,
\* empty, of a type that is neither string nor number, or a string that is
\* not a number gets cost 0 and is aggregated like any other; no record is
\* dropped and no run aborts because of a cost field.
C7_CostExtractionNeverFails ==
  /\ requests # <<>> /\ pc = "exit" => "traceback" \notin Range(out)
  /\ report.kind = "report" =>
       \A i \in Idx(report.years) :
         \A k \in Idx(report.years[i].vendor_data) :
           ItemsMatch(report.years[i].vendor_data[k].items,
                      HistoryRows(report.years[i].year,
                                  report.years[i].vendor_data[k].key))
  /\ report.kind = "summary" =>
       \A v \in Idx(report.vendors) :
         \A s \in Idx(report.vendors[v].schools) :
           ItemsMatch(report.vendors[v].schools[s].items,
                      SummaryRows(report.vendors[v].key,
                                  report.vendors[v].schools[s].key))

NonNegativeItems(items) == \A i \in Idx(items) : items[i].cost >= 0

\* C8: every line item has cost >= 0, and so has every vendor, organization
\* and grand total.
C8_CostsNonNegative ==
  /\ report.kind = "report" =>
       /\ report.total_all_years >= 0
       /\ \A i \in Idx(report.years) :
            \A k \in Idx(report.years[i].vendor_data) :
              /\ report.years[i].vendor_data[k].total >= 0
              /\ NonNegativeItems(report.years[i].vendor_data[k].items)
  /\ report.kind = "summary" =>
       /\ report.total_funding >= 0
       /\ \A v \in Idx(report.vendors) :
            /\ report.vendors[v].total >= 0
            /\ \A s \in Idx(report.vendors[v].schools) :
                 /\ report.vendors[v].schools[s].total >= 0
                 /\ NonNegativeItems(report.vendors[v].schools[s].items)

Perms(n) == { p \in [1..n -> 1..n] : \A i, j \in 1..n : p[i] = p[j] => i = j }
Permuted(s, p) == [i \in Idx(s) |-> s[p[i]]]

\* The totals of a summary: grand, per vendor, per vendor and school.
SummaryTotals(rep) ==
  [grand |-> rep.total_funding,
   vendor |-> { <<rep.vendors[v].key, rep.vendors[v].total>> : v \in Idx(rep.vendors) },
   school |-> UNION { { <<rep.vendors[v].key, rep.vendors[v].schools[s].key,
                          rep.vendors[v].schools[s].total>> :
                        s \in Idx(rep.vendors[v].schools) } : v \in Idx(rep.vendors) }]

\* The per-year/per-vendor totals of a history report.
HistoryTotals(rep) ==
  UNION { { <<rep.years[i].year, rep.years[i].vendor_data[k].key,
              rep.years[i].vendor_data[k].total>> :
            k \in Idx(rep.years[i].vendor_data) } : i \in Idx(rep.years) }

\* all_data with the rows of its j-th year in the order p.
WithYearPermuted(j, p) ==
  [all_data EXCEPT ![j].data = Permuted(all_data[j].data, p)]

\* C9: aggregation is order-independent: the same line items in any other
\* order give the same per-year/per-vendor totals (history report) and the
\* same per-vendor, per-vendor-per-organization and grand totals (summary).
C9_OrderIndependent ==
  /\ report.kind = "summary" =>
       \A p \in Perms(Len(filtered_data)) :
         SummaryTotals(generate_summary(Permuted(filtered_data, p),
                                        args.school_threshold, args.sku_threshold))
           = SummaryTotals(report)
  /\ report.kind = "report" =>
       \A j \in Idx(all_data) :
         \A p \in Perms(Len(all_data[j].data)) :
           HistoryTotals(generate_school_history_report(
                           WithYearPermuted(j, p),
                           main_processed_data(WithYearPermuted(j, p)),
                           args.sku_threshold))
             = HistoryTotals(report)

RECURSIVE Concat(_)
Concat(seqs) == IF seqs = <<>> THEN <<>> ELSE Head(seqs) \o Concat(Tail(seqs))

Totals(nodes) == [i \in Idx(nodes) |-> nodes[i].total]

\* The sum of a list of amounts, added up as the program adds them.
TotalOf(amounts) == py_sum(amounts, 0)

\* C10: total conservation: the grand total is the sum of the vendor
\* totals, of the vendor/organization totals and of the costs of all line
\* items, and the total of each node is the sum of the costs of its items.
C10_TotalsConserved ==
  /\ report.kind = "summary" =>
       /\ report.total_funding = TotalOf(Totals(report.vendors))
       /\ report.total_funding =
            TotalOf(Concat([v \in Idx(report.vendors) |->
                              Totals(report.vendors[v].schools)]))
       /\ \A v \in Idx(report.vendors) :
            /\ report.vendors[v].total = TotalOf(Totals(report.vendors[v].schools))
            /\ \A s \in Idx(report.vendors[v].schools) :
                 report.vendors[v].schools[s].total =
                   TotalOf(Costs(report.vendors[v].schools[s].items))
  /\ report.kind = "report" =>
       /\ report.total_all_years =
            TotalOf(Concat([i \in Idx(report.years) |->
                              Totals(report.years[i].vendor_data)]))
       /\ \A i \in Idx(report.years) :
            \A k \in Idx(report.years[i].vendor_data) :
              report.years[i].vendor_data[k].total =
                TotalOf(Costs(report.years[i].vendor_data[k].items))

\* The number of rows of one kind in a rendered report.
CountRows(rows, kind) == Cardinality({ i \in Idx(rows) : rows[i].kind = kind })

\* The thresholds the line items are rendered under.
Thresholds == {1, 2, 9}

\* C11: for fixed line items, raising the SKU threshold never increases the
\* number of item rows (either report), and raising the school threshold
\* never increases the number of organization rows (state/year report).
C11_ThresholdMonotonic ==
  /\ report.kind = "report" =>
       \A t1, t2 \in Thresholds :
         t1 <= t2 =>
           CountRows(history_rows(report.years, t2), "item")
             <= CountRows(history_rows(report.years, t1), "item")
  /\ report.kind = "summary" =>
       \A t1, t2, t \in Thresholds :
         t1 <= t2 =>
           /\ CountRows(summary_rows(report.vendors, t, t2), "item")
                <= CountRows(summary_rows(report.vendors, t, t1), "item")
           /\ CountRows(summary_rows(report.vendors, t2, t), "school")
                <= CountRows(summary_rows(report.vendors, t1, t), "school")

\* C11, its case: a summary that loses item rows when the SKU threshold goes
\* from 1 to 2 and organization rows when the school threshold goes from 1
\* to 9.
C11_Witness ==
  /\ report.kind = "summary"
  /\ CountRows(summary_rows(report.vendors, 1, 2), "item")
       < CountRows(summary_rows(report.vendors, 1, 1), "item")
  /\ CountRows(summary_rows(report.vendors, 9, 1), "school")
       < CountRows(summary_rows(report.vendors, 1, 1), "school")
  /\ CountRows(summary_rows(report.vendors, 9, 1), "school") > 0

LabelRendered == prog = "fn" /\ pc = "exit" /\ args.fn = "label"

\* C12: no item label is longer than 45 characters, whatever the length of
\* the model name and of the application number and whether or not the model
\* name has a parenthetical.
C12_LabelAtMost45 ==
  LabelRendered => Len(results[1]) <= 45 /\ Len(results[2]) <= 45

\* C12, its case: a model name over 45 characters without parenthetical and
\* an application number so long that the prefix is given up.
C12_Witness ==
  /\ LabelRendered
  /\ Len(args.model) > 45 /\ ~contains(args.model, <<"(">>)
  /\ 45 - Len(app_info_of(args.app_number)) - 3 <= 10
  /\ results[1] = Take(args.model, 42) \o Str_Ellipsis

\* The rows of the report of one kind for a year/vendor/school.
RowsFor(kind, y, v, s) ==
  { i \in Idx(report.rows) :
      /\ report.rows[i].kind = kind /\ report.rows[i].year = y
      /\ report.rows[i].vendor = v /\ report.rows[i].school = s }

NoItemOver(items, sku_threshold) == \A i \in Idx(items) : items[i].cost < sku_threshold

\* The total the summary holds for school s under vendor v.
SchoolTotal(v, s) ==
  LET ve == report.vendors[CHOOSE i \in Idx(report.vendors) : report.vendors[i].key = v]
  IN  ve.schools[CHOOSE j \in Idx(ve.schools) : ve.schools[j].key = s].total

\* C13 as stated: every vendor and every organization of the line items is
\* in the rendered report, and a vendor or organization group without an
\* item at or over the SKU threshold has a placeholder row.
C13_EveryGroupRendered ==
  /\ report.kind = "report" =>
       \A i \in Idx(report.years) :
         \A k \in Idx(report.years[i].vendor_data) :
           LET y == report.years[i].year
               d == report.years[i].vendor_data[k]
           IN  /\ RowsFor("vendor", y, d.key, <<>>) # {}
               /\ NoItemOver(d.items, args.sku_threshold) =>
                    RowsFor("no_items", y, d.key, <<>>) # {}
  /\ report.kind = "summary" =>
       \A v \in Idx(report.vendors) :
         /\ RowsFor("vendor", <<>>, report.vendors[v].key, <<>>) # {}
         /\ \A s \in Idx(report.vendors[v].schools) :
              LET d == report.vendors[v].schools[s]
              IN  /\ RowsFor("school", <<>>, report.vendors[v].key, d.key) # {}
                  /\ NoItemOver(d.items, args.sku_threshold) =>
                       RowsFor("no_items", <<>>, report.vendors[v].key, d.key) # {}

\* C13, amended: every vendor of the line items is in the rendered report.
\* In the history report a vendor without an item at or over the SKU
\* threshold has the 'no single line items' row. In the summary an
\* organization is under a vendor exactly when its total there is at or over
\* the school threshold, a vendor with no such organization has the 'no
\* schools above threshold' row, and no organization has a placeholder row.
C13_VendorsRendered ==
  /\ report.kind = "report" =>
       \A i \in Idx(report.years) :
         \A k \in Idx(report.years[i].vendor_data) :
           LET y == report.years[i].year
               d == report.years[i].vendor_data[k]
           IN  /\ Cardinality(RowsFor("vendor", y, d.key, <<>>)) = 1
               /\ RowsFor("no_items", y, d.key, <<>>) # {}
                    <=> NoItemOver(d.items, args.sku_threshold)
               /\ RowsFor("item", y, d.key, <<>>) # {}
                    <=> ~NoItemOver(d.items, args.sku_threshold)
  /\ report.kind = "summary" =>
       /\ CountRows(report.rows, "no_items") = 0
       /\ \A n \in Idx(filtered_data) :
            LET v == filtered_data[n].standardized_vendor
                s == filtered_data[n].organization_name
            IN  /\ Cardinality(RowsFor("vendor", <<>>, v, <<>>)) = 1
                /\ RowsFor("school", <<>>, v, s) # {}
                     <=> SchoolTotal(v, s) >= args.school_threshold
                /\ RowsFor("no_schools", <<>>, v, <<>>) # {}
                     <=> \A i \in Idx(report.rows) :
                           ~(report.rows[i].kind = "school" /\ report.rows[i].vendor = v)

\* C13, its case: a summary with an organization left out under a vendor
\* that shows another one.
C13_Witness ==
  /\ report.kind = "summary"
  /\ \E n \in Idx(filtered_data) :
       LET v == filtered_data[n].standardized_vendor
       IN  /\ RowsFor("school", <<>>, v, filtered_data[n].organization_name) = {}
           /\ RowsFor("no_schools", <<>>, v, <<>>) = {}

\* A history report with a 'no single line items' row next to item rows.
HistoryWithPlaceholder ==
  /\ report.kind = "report"
  /\ CountRows(report.rows, "no_items") > 0 /\ CountRows(report.rows, "item") > 0

\* The vendor lines of the report for year y (<<>> in the summary), in the
\* order they are printed.
VendorLines(y) ==
  SelectSeq(report.rows, LAMBDA row : row.kind = "vendor" /\ row.year = y)

\* Descending total, and ascending vendor name among equal totals.
InVendorOrder(lines) ==
  \A i, j \in Idx(lines) :
    i < j =>
      /\ lines[i].cost >= lines[j].cost
      /\ lines[i].cost = lines[j].cost => str_less(lines[i].vendor, lines[j].vendor)

\* C14: within a year of the history report and within the summary, vendors
\* are printed by non-increasing total, and vendors with equal totals by
\* ascending canonical name, whatever order their records arrived in.
C14_VendorOrder ==
  /\ report.kind = "report" =>
       \A i \in Idx(report.years) : InVendorOrder(VendorLines(report.years[i].year))
  /\ report.kind = "summary" => InVendorOrder(VendorLines(<<>>))

\* The line items of the summary that belong to school s under vendor v.
SchoolItems(v, s) ==
  LET ve == report.vendors[CHOOSE i \in Idx(report.vendors) : report.vendors[i].key = v]
  IN  ve.schools[CHOOSE j \in Idx(ve.schools) : ve.schools[j].key = s].items

\* C15: in the state/year report an organization is shown under a vendor
\* exactly when its total for that vendor is at or over the school threshold,
\* and every item row belongs to a shown organization and has a cost at or
\* over the SKU threshold; an organization under the school threshold has no
\* item row, whatever its items cost.
C15_SchoolThenSkuThreshold ==
  report.kind = "summary" =>
    /\ \A n \in Idx(filtered_data) :
         LET v == filtered_data[n].standardized_vendor
             s == filtered_data[n].organization_name
         IN  /\ RowsFor("school", <<>>, v, s) # {}
                  <=> SchoolTotal(v, s) >= args.school_threshold
             /\ SchoolTotal(v, s) < args.school_threshold
                  => RowsFor("item", <<>>, v, s) = {}
    /\ \A i \in Idx(report.rows) :
         report.rows[i].kind = "item" =>
           /\ RowsFor("school", <<>>, report.rows[i].vendor, report.rows[i].school) # {}
           /\ SchoolTotal(report.rows[i].vendor, report.rows[i].school)
                >= args.school_threshold
           /\ report.rows[i].cost >= args.sku_threshold

\* C15, its case: an organization under the school threshold with an item at
\* or over the SKU threshold, printed without an item row.
C15_Witness ==
  /\ report.kind = "summary"
  /\ \E n \in Idx(filtered_data) :
       LET v == filtered_data[n].standardized_vendor
           s == filtered_data[n].organization_name
       IN  /\ SchoolTotal(v, s) < args.school_threshold
           /\ ~NoItemOver(SchoolItems(v, s), args.sku_threshold)
           /\ RowsFor("item", <<>>, v, s) = {}

\* Entry i of the table lists the alias.
Lists(mappings, i, alias) ==
  \E j \in Idx(mappings[i].variants) : mappings[i].variants[j] = alias

\* C16: in each program, get_standardized_vendor of an alias of a vendor, in
\* any letter case and with blanks before or after it, is the display form of
\* that vendor and of no other vendor of the table; no alias is listed under
\* two vendors of one table.
C16_CanonicalizationDeterministic ==
  /\ \A tb \in {"school", "year"} :
       \A i, k \in Idx(vendor_mappings(tb)) :
         i # k => \A j \in Idx(vendor_mappings(tb)[i].variants) :
                    ~Lists(vendor_mappings(tb), k, vendor_mappings(tb)[i].variants[j])
  /\ (args.fn = "vendor" /\ pc = "exit" /\ args.listed # 0) =>
       LET mappings == vendor_mappings(args.table)
       IN  /\ results[2] = title(mappings[args.listed].name)
           /\ \A k \in Idx(mappings) :
                k # args.listed => results[2] # title(mappings[k].name)

\* C16, its case: an alias in upper case between blanks was canonicalized.
C16_Witness ==
  /\ args.fn = "vendor" /\ pc = "exit" /\ args.listed # 0
  /\ args.name # strip(args.name) /\ args.name # lower(args.name)
  /\ results[2] # args.name

\* C17: a record becomes a line item only if its manufacturer name, in lower
\* case and without surrounding blanks, is a listed alias; for a manufacturer
\* that is missing, empty or not listed is_target_vendor is false, the record
\* is rejected and get_standardized_vendor gives the name back as it is.
C17_StrictVendorTargeting ==
  (args.fn = "vendor" /\ pc = "exit") =>
    LET mappings == vendor_mappings(args.table)
        listed == \E i \in Idx(mappings) : Lists(mappings, i, strip(lower(args.name)))
    IN  /\ results[3] # None => listed
        /\ results[3] # None => results[3].form_471_manufacturer_name = args.name
        /\ (args.name = <<>> \/ ~listed) =>
             /\ results[1] = FALSE
             /\ results[2] = args.name
             /\ results[3] = None

\* C17, its case: a name with an alias inside it was rejected.
C17_Witness ==
  /\ args.fn = "vendor" /\ pc = "exit" /\ args.listed = 0
  /\ \E alias \in target_vendors(vendor_mappings(args.table)) : contains(args.name, alias)
  /\ results = <<FALSE, args.name, None>>

\* The organization names of the rows, as find_schools reads them (without
\* surrounding blanks).
NamesIn(data) == { strip(data[i].organization_name) : i \in Idx(data) } \ {<<>>}

\* The funding years the rows give for a name.
YearsOf(data, name) ==
  { data[i].funding_year : i \in { k \in Idx(data) : strip(data[k].organization_name) = name } }
    \ {<<>>}

Min(a, b) == IF a <= b THEN a ELSE b

HistoryFiltersAtQuery ==
  /\ results[3] # None
       <=> is_target_vendor(school_vendor_mappings, args.manufacturer)
  /\ results[4] => args.form_version = Str_Current
  /\ results[5] => args.form_version = Str_Current

\* C19 as stated: the state/year normalizer makes a line item only of a row
\* whose form version equals "Current" and looks at the form version before
\* the vendor; the history normalizer does not look at the form version,
\* which only the two queries do.
C19_FormVersionEqualsCurrent ==
  (args.fn = "normalize" /\ pc = "exit") =>
    /\ results[1] # None => args.form_version = Str_Current
    /\ args.form_version # Str_Current => results[2] = "form_version"
    /\ HistoryFiltersAtQuery

\* C19, amended: the form version is compared with "Current" after the blanks
\* around it are removed.
C19_FormVersionStrippedIsCurrent ==
  (args.fn = "normalize" /\ pc = "exit") =>
    /\ results[1] # None
         <=> /\ strip(args.form_version) = Str_Current
             /\ is_target_vendor(year_vendor_mappings, args.manufacturer)
    /\ strip(args.form_version) # Str_Current => results[2] = "form_version"
    /\ HistoryFiltersAtQuery

\* C19, its case: a row of another form version and of a target vendor, which
\* the state/year normalizer rejects for its form version and the history
\* normalizer keeps.
C19_Witness ==
  /\ args.fn = "normalize" /\ pc = "exit"
  /\ args.form_version = Str_Original /\ args.manufacturer = Cisco
  /\ results[1] = None /\ results[2] = "form_version" /\ results[3] # None
  /\ ~results[4] /\ ~results[5]

\* A row whose form version is "Current" between blanks becomes a line item
\* of the state/year program.
C19_BlanksAccepted ==
  /\ args.fn = "normalize" /\ pc = "exit"
  /\ args.form_version # Str_Current /\ results[1] # None

\* The item rows of one group of a rendered report, in the order they are
\* printed: a vendor within a year (history), a school within a vendor
\* (summary).
GroupItemRows(rows, y, v, s) ==
  SelectSeq(rows, LAMBDA row : /\ row.kind = "item" /\ row.year = y
                               /\ row.vendor = v /\ row.school = s)

\* How often a cost occurs in a sequence of items or of rows.
Occurrences(seq, cost) == Cardinality({ i \in Idx(seq) : seq[i].cost = cost })

\* The lines are the items at or over the threshold, one line for each
\* occurrence, by non-increasing cost.
ExactlyItemsOver(lines, items, sku_threshold) ==
  /\ \A i, j \in Idx(lines) : i < j => lines[i].cost >= lines[j].cost
  /\ \A i \in Idx(lines) : lines[i].cost >= sku_threshold
  /\ \A i \in Idx(lines) : Occurrences(lines, lines[i].cost) = Occurrences(items, lines[i].cost)
  /\ \A i \in Idx(items) :
       items[i].cost >= sku_threshold
         => Occurrences(lines, items[i].cost) = Occurrences(items, items[i].cost)

\* C20: in both reports the item rows printed within a group that is shown (a
\* vendor within a year, an organization within a vendor) are the items of
\* the group whose cost is at or over the SKU threshold, one row for each
\* occurrence, by non-increasing cost.
C20_ItemRowsExact ==
  /\ report.kind = "report" =>
       \A t \in Thresholds \cup {args.sku_threshold} :
         \A i \in Idx(report.years) :
           \A k \in Idx(report.years[i].vendor_data) :
             LET y == report.years[i].year
                 d == report.years[i].vendor_data[k]
             IN  ExactlyItemsOver(GroupItemRows(history_rows(report.years, t), y, d.key, <<>>),
                                  d.items, t)
  /\ report.kind = "summary" =>
       \A t \in Thresholds \cup {args.sku_threshold} :
         \A ts \in {1, args.school_threshold} :
           \A i \in Idx(report.vendors) :
             \A k \in Idx(report.vendors[i].schools) :
               LET v == report.vendors[i]
                   s == v.schools[k]
               IN  s.total >= ts =>
                     ExactlyItemsOver(
                       GroupItemRows(summary_rows(report.vendors, ts, t), <<>>, v.key, s.key),
                       s.items, t)
  /\ report.kind = "report" => report.rows = history_rows(report.years, args.sku_threshold)
  /\ report.kind = "summary" =>
       report.rows = summary_rows(report.vendors, args.school_threshold, args.sku_threshold)

\* C20, its case: a history report with a vendor whose items arrived in
\* ascending order of cost; both are printed, the dearer one first, under a
\* threshold of 1, and only the dearer one is printed under the threshold
\* the report was asked for.
C20_Witness ==
  /\ report.kind = "report"
  /\ \E i \in Idx(report.years) :
       \E k \in Idx(report.years[i].vendor_data) :
         LET y == report.years[i].year
             d == report.years[i].vendor_data[k]
             low == GroupItemRows(history_rows(report.years, 1), y, d.key, <<>>)
             asked == GroupItemRows(report.rows, y, d.key, <<>>)
         IN  /\ Len(d.items) >= 2 /\ d.items[1].cost < d.items[2].cost
             /\ Len(low) = Len(d.items) /\ low[1].cost = d.items[2].cost
             /\ Len(asked) > 0 /\ Len(asked) < Len(low)

\* An organization-history run that passed the validation of its arguments.
HistoryRun == prog = "school" /\ args.find_school = NoneStr /\ organization_name # <<>>

\* fetch_all_years_data has returned.
AllYearsFetched == pc \in {"fetched", "report", "save_csv"} \/ (pc = "exit" /\ calls # <<>>)

\* The run is at the reporting step, or has left by the 'no data found' exit.
ReportingOrNoData == pc = "report" \/ (pc = "exit" /\ "no_data_found" \in Range(out))

\* The requests of a history run, so far: years 2016 to 2025 in ascending
\* order, none issued twice, the exact request of a year before its partial
\* one, the year being fetched the next one after the calls that returned.
RequestsInOrder ==
  /\ \A i \in Idx(requests) :
       /\ requests[i].year \in FirstYear..(EndYear - 1)
       /\ requests[i].kind \in {"exact", "partial"}
       /\ \A j \in Idx(requests) :
            /\ i < j => requests[i].year <= requests[j].year
            /\ i # j => requests[i] # requests[j]
       /\ requests[i].kind = "partial" => ExactRequests(requests[i].year) # {}
  /\ \A k \in Idx(calls) : calls[k].year = FirstYear + k - 1
  /\ \A y \in FirstYear..(EndYear - 1) :
       Cardinality(ExactRequests(y)) + Cardinality(PartialRequests(y)) <= 2

\* C21: an organization-history run asks for the years 2016 to 2025 one after
\* another in ascending order, with at most one exact and one partial request
\* a year and no request a second time; when the years are fetched it has
\* issued one exact request for every year, between 10 and 20 requests in
\* all; fetch_all_years_data always returns, whatever the requests meet, and
\* the step after it is the 'no data found' exit or leads to the reporting
\* step, so that a run ends with 'no data found' or after its report.
C21_TenYearsThenReport ==
  /\ [](HistoryRun =>
          /\ RequestsInOrder
          /\ AllYearsFetched =>
               /\ Len(calls) = 10
               /\ \A y \in FirstYear..(EndYear - 1) : Cardinality(ExactRequests(y)) = 1
               /\ Len(requests) >= 10 /\ Len(requests) <= 20
          /\ pc = "exit" =>
               \/ "no_data_found" \in Range(out)
               \/ report.kind # "none")
  /\ [][(HistoryRun /\ pc = "fetched") => ReportingOrNoData']_vars
  /\ (HistoryRun /\ pc = "fetch_exact") ~> (pc = "fetched")

\* C21, its case: a run that met a year with exact matches, years without
\* any match and a failed request, and has printed its report after 18
\* requests.
C21_Witness ==
  /\ HistoryRun /\ pc = "exit" /\ report.kind = "report"
  /\ \E k \in Idx(calls) : CallFailed(calls[k])
  /\ \E k \in Idx(calls) : calls[k].partial = "ok" /\ calls[k].ret = <<>>
  /\ \E k \in Idx(calls) : calls[k].partial = "none" /\ calls[k].ret # <<>>
  /\ Len(requests) = 18

\* The juniper aliases.
JuniperAliases == { <<"j","u","n","i","p","e","r">>, <<"j","u","n","i","p","e","r"," ","n","e","t","w","o","r","k","s">> }

\* C22: the two programs take the same manufacturer names for target vendors
\* (they list the same aliases, and is_target_vendor gives the same answer on
\* every name), and get_standardized_vendor gives the same vendor in both
\* except for the juniper aliases, which are Juniper in the history program
\* and Hp in the state/year program.
C22_TaxonomiesAgreeButJuniper ==
  /\ target_vendors(vendor_mappings("school")) = target_vendors(vendor_mappings("year"))
  /\ (args.fn = "taxonomies" /\ pc = "exit") =>
       /\ results[1] = results[2]
       /\ results[3] # results[4] <=> strip(lower(args.name)) \in JuniperAliases
       /\ strip(lower(args.name)) \in JuniperAliases =>
            /\ results[3] = <<"J","u","n","i","p","e","r">>
            /\ results[4] = <<"H","p">>

\* C22, its case: a juniper alias in upper case between blanks, a target
\* vendor of both programs, was canonicalized by both.
C22_Witness ==
  /\ args.fn = "taxonomies" /\ pc = "exit"
  /\ args.name = <<" ", " ">> \o upper(<<"j","u","n","i","p","e","r"," ","n","e","t","w","o","r","k","s">>) \o <<" ">>
  /\ results[1] /\ results[2] /\ results[3] # results[4]

\* An alias outside the juniper ones was canonicalized alike by both.
C22_OtherAliasAlike ==
  /\ args.fn = "taxonomies" /\ pc = "exit"
  /\ results[1] /\ results[3] = results[4] /\ results[3] # args.name

=============================================================================
